---------------------------- MODULE Spec2Model ----------------------------
(***************************************************************************)
(* A model of the signature layer of projects/00-cryptos-rs               *)
(* (src/signature.rs): ECDSA and Schnorr sign / verify and the DER codec   *)
(* of Signature, together with the key routines they call.                 *)
(*                                                                         *)
(* Scaling.  TLC cannot compute with 256-bit integers, so the curve is the *)
(* smallest curve of the secp256k1 family y^2 = x^3 + 7 over GF(p) with    *)
(* p = 3 (mod 4) and a prime group order n < p: p = 43, n = 31.  As on     *)
(* secp256k1, some points have an x-coordinate in [n, p).  A digest is one *)
(* 6-bit "byte" instead of 32 bytes: 2^6 is the least power of two above   *)
(* p, as 2^256 is for secp256k1.                                           *)
(*                                                                         *)
(* signature.rs computes with num_bigint::BigUint and calls                *)
(* inv(&BigUint, &BigUint), PublicKey::from_sk(&BigUint),                  *)
(* PublicKey::to_point and Point::mul(BigUint).  The curves.rs and keys.rs *)
(* under src/ are the primitive_types::U256 draft, whose signatures these  *)
(* calls do not match; the arbitrary-precision point arithmetic that       *)
(* signature.rs is written against is therefore modelled from sections     *)
(* 4.1 and 4.3 of the specification (inv_mod, point_add, point_double,     *)
(* scalar_mul, from_sk, to_point).                                         *)
(***************************************************************************)
EXTENDS Integers, Sequences, FiniteSets

VARIABLES
    pc,         \* position of the caller: which operation ran last
    sk1,        \* secret key of identity 1 (0: not generated yet)
    sk2,        \* secret key of identity 2 (0: not generated yet)
    message,    \* the message that was signed, a byte sequence
    signer,     \* who made sig: 1, 2, or 0 for a signature made up by hand
    nonce,      \* the nonce k the signer drew (0: none)
    sig,        \* the Signature {r, s} at hand
    result,     \* outcome of the verify call
    der,        \* DER bytes at hand
    decoded,    \* outcome of Signature::decode
    der2,       \* Signature::encode of the decoded signature
    point,      \* the curve point at hand (a public key, an operand)
    compressed, \* the `compressed` argument of PublicKey::encode
    pkb,        \* SEC bytes of a public key at hand
    ret,        \* what the call at hand returned, or that it panicked
    net,        \* the `net` argument of PublicKey::address
    address,    \* a Base58Check address: a string over ALPHABET, as indexes
    field_a,    \* first operand of a field operation (self)
    field_b,    \* second operand of a field operation (b, or the exponent e)
    field_p,    \* the modulus of a field operation
    scalar,     \* the scalar of a multiplication; k1 of the operand k1.G
    scalar2,    \* k2 of the operand k2.G
    point2,     \* the second operand of a point addition
    order,      \* the argument n of gen_secret_key
    candidate,  \* the key that gen_secret_key drew last
    block_bits, \* the field `bits` of a Block: 4 bytes
    block_id,   \* the ID of the Block: hash256 of the header, reversed
    varint,     \* the u64 that encode_varint was given
    stream,     \* the bytes in the reader
    position,   \* the position of the reader in stream, from 0
    txdb,       \* the txdb directory: the raw bytes stored under each name
    input,      \* the bytes given to sha256 and hash256
    script,     \* the cmds of a Script
    mod_tx_enc  \* the encoding of the transaction that the script signs

\* the state of the signature layer, but for pc and result
sigstate == <<sk1, sk2, message, signer, nonce, sig, der, decoded, der2>>

\* the state of the key, field and curve layers
\* the operands of a field operation
field == <<field_a, field_b, field_p>>

\* the operands of a curve operation, but for point
curveops == <<scalar, scalar2, point2>>

calc == <<point, compressed, pkb, ret, net, address, field, curveops>>

\* the same but for ret
operands == <<point, compressed, pkb, net, address, field, curveops>>

\* the state of the key generation
keygen == <<order, candidate>>

\* a block header, as far as its validation reads it
block == <<block_bits, block_id>>

\* a reader over the bytes of a script or transaction, and the count that
\* was written to them
reader == <<varint, stream, position>>

\* the state of the key generation, block and transaction layers
\* a Script and what it is evaluated for
scripting == <<script, mod_tx_enc>>

chain == <<keygen, block, reader, txdb, input, scripting>>

vars == <<pc, result, sigstate, calc, chain>>

-----------------------------------------------------------------------------
(* Bounds of the model *)

\* messages are the one-byte strings <<0>> .. <<MaxMsgByte>>
MaxMsgByte == 3

\* Signature integers of the DER model have at most MaxIntBytes bytes
MaxIntBytes == 2

-----------------------------------------------------------------------------
(* Bytes and big integers *)

RECURSIVE from_bytes_be(_)
\* BigUint::from_bytes_be: big-endian, the empty string is 0
from_bytes_be(b) ==
    IF Len(b) = 0 THEN 0
    ELSE 256 * from_bytes_be(SubSeq(b, 1, Len(b) - 1)) + b[Len(b)]

RECURSIVE to_bytes_be(_)
\* BigUint::to_bytes_be: minimal big-endian bytes; zero is the one byte 0
to_bytes_be(v) ==
    IF v < 256 THEN <<v>>
    ELSE Append(to_bytes_be(v \div 256), v % 256)

\* width of a digest, scaled from 2^256
DigestModulus == 2^6

RECURSIVE hash256_update(_, _, _, _)
\* the digest h after the bytes b[lo..hi]: each byte takes h to
\* 3 * h + 17 * byte
hash256_update(h, b, lo, hi) ==
    IF lo > hi THEN h
    ELSE IF lo = hi THEN (3 * h + 17 * b[lo]) % DigestModulus
    ELSE CHOOSE out \in {hash256_update(half, b, (lo + hi) \div 2 + 1, hi) :
                           half \in {hash256_update(h, b, lo, (lo + hi) \div 2)}} : TRUE

\* hash256: a fixed function from byte strings to digests.  SHA-256 is
\* replaced by a small mixing function with the digest width of the model;
\* over the one-byte messages it takes distinct values on both sides of n.
hash256(b) == <<hash256_update(5, b, 1, Len(b))>>

-----------------------------------------------------------------------------
(* The curve *)

\* BITCOIN: the generator of the process, scaled (see the head of the module)
BITCOIN ==
    [gen |-> [G |-> [inf |-> FALSE, x |-> 2, y |-> 12],
              n |-> 31,
              curve |-> [p |-> 43, a |-> 0, b |-> 7]]]

\* the identity element: a variant of its own, never an affine pair
Identity == [inf |-> TRUE, x |-> 0, y |-> 0]

Affine(x, y) == [inf |-> FALSE, x |-> x, y |-> y]

\* inv_mod(a, p): the inverse of a in GF(p); NotInvertible for a = 0
inv_mod(a, p) ==
    IF a % p = 0 THEN "NotInvertible"
    ELSE CHOOSE v \in 1..(p - 1) : (a * v) % p = 1

\* doubling: Identity doubles to Identity, y = 0 doubles to Identity
point_double(P) ==
    LET p == BITCOIN.gen.curve.p
        a == BITCOIN.gen.curve.a
    IN  IF P.inf THEN Identity
        ELSE IF P.y = 0 THEN Identity
        ELSE LET lam == ((3 * P.x * P.x + a) * inv_mod(2 * P.y, p)) % p
                 xr  == (lam * lam + 2 * p - P.x - P.x) % p
                 yr  == (lam * (P.x + p - xr) + p - P.y) % p
             IN  Affine(xr, yr)

\* addition, section 4.3.1
point_add(P, Q) ==
    LET p == BITCOIN.gen.curve.p
    IN  IF P.inf THEN Q
        ELSE IF Q.inf THEN P
        ELSE IF P.x = Q.x /\ P.y # Q.y THEN Identity
        ELSE IF P = Q THEN point_double(P)
        ELSE LET lam == ((Q.y + p - P.y) * inv_mod(Q.x + p - P.x, p)) % p
                 xr  == (lam * lam + 2 * p - P.x - Q.x) % p
                 yr  == (lam * (P.x + p - xr) + p - P.y) % p
             IN  Affine(xr, yr)

\* negation of a point
point_neg(P) ==
    IF P.inf THEN Identity
    ELSE Affine(P.x, (BITCOIN.gen.curve.p - P.y) % BITCOIN.gen.curve.p)

RECURSIVE scalar_mul(_, _)
\* k.P by the double-and-add ladder over the bits of k, high bit first
scalar_mul(k, P) ==
    IF k = 0 THEN Identity
    ELSE LET R == point_double(scalar_mul(k \div 2, P))
         IN  IF k % 2 = 1 THEN point_add(R, P) ELSE R

\* PublicKey::from_sk(sk) := sk.G
from_sk(sk) == scalar_mul(sk, BITCOIN.gen.G)

\* PublicKey::to_point
to_point(public_key) == public_key

\* gen_secret_key(n): the values the rejection loop can return, out of the
\* draws 0 .. DigestModulus - 1 (32 random bytes in the source)
gen_secret_key(n) ==
    {key \in 0..(DigestModulus - 1) : key >= 1 /\ key < n}

-----------------------------------------------------------------------------
(* signature.rs *)

Signature(r, s) == [r |-> r, s |-> s]

\* the digest of a message as an integer: BigUint::from_bytes_be(&hash256(..))
digest(msg) == from_bytes_be(hash256(msg))

\* s as sign_ecdsa first computes it (line 78), before the low-s adjustment
raw_s(secret_key, msg, k) ==
    LET n == BITCOIN.gen.n
        r == from_sk(k).x
    IN  (inv_mod(k, n) * (digest(msg) + secret_key * r)) % n

\* sign_ecdsa without the adjustment of line 85
sign_ecdsa_no_low_s(secret_key, msg, k) ==
    LET n  == BITCOIN.gen.n
        r  == from_sk(k).x
        s0 == raw_s(secret_key, msg, k)
    IN  Signature(r, (s0 + n) % n)

\* sign_ecdsa, with the nonce k that gen_secret_key(n) returned made explicit
sign_ecdsa(secret_key, msg, k) ==
    LET n  == BITCOIN.gen.n
        P  == from_sk(k)
        r  == P.x
        s0 == raw_s(secret_key, msg, k)
        s1 == IF s0 > n \div 2 THEN n - s0 ELSE s0
        s2 == (s1 + n) % n
    IN  Signature(r, s2)

\* the point P = u1.G + u2.Q of verify_ecdsa (lines 104-112)
verify_point(public_key, msg, sg) ==
    LET n  == BITCOIN.gen.n
        z  == digest(msg)
        w  == inv_mod(sg.s, n)
        u1 == (z * w) % n
        u2 == (sg.r * w) % n
    IN  point_add(scalar_mul(u1, BITCOIN.gen.G),
                  scalar_mul(u2, to_point(public_key)))

\* verify_ecdsa accepting only the low-s form
verify_ecdsa_low_s_only(public_key, msg, sg) ==
    LET n == BITCOIN.gen.n
    IN  IF ~(sg.r >= 1 /\ sg.r < n) THEN "assert_failed"
        ELSE IF ~(sg.s >= 1 /\ sg.s < n) THEN "assert_failed"
        ELSE IF sg.s > n \div 2 THEN "false"
        ELSE LET P == verify_point(public_key, msg, sg)
             IN  IF P.inf THEN "unwrap_none"
                 ELSE IF P.x = sg.r THEN "true" ELSE "false"

\* verify_ecdsa: "true", "false", "assert_failed" (a range assertion of
\* lines 101-102 fails) or "unwrap_none" (P.x.unwrap() on the identity)
verify_ecdsa(public_key, msg, sg) ==
    LET n == BITCOIN.gen.n
    IN  IF ~(sg.r >= 1 /\ sg.r < n) THEN "assert_failed"
        ELSE IF ~(sg.s >= 1 /\ sg.s < n) THEN "assert_failed"
        ELSE LET P == verify_point(public_key, msg, sg)
             IN  IF P.inf THEN "unwrap_none"
                 ELSE IF P.x = sg.r THEN "true" ELSE "false"

\* sign_schnorr, with the nonce k made explicit
sign_schnorr(secret_key, msg, k) ==
    LET n == BITCOIN.gen.n
        R == from_sk(k)
        r == R.x
        e == from_bytes_be(hash256(to_bytes_be(r) \o msg))
        s == (k + e * secret_key) % n
    IN  Signature(r, s)

\* verify_schnorr: outcomes as for verify_ecdsa
verify_schnorr(public_key, msg, sg) ==
    LET n == BITCOIN.gen.n
    IN  IF ~(sg.r >= 1 /\ sg.r < n) THEN "assert_failed"
        ELSE IF ~(sg.s >= 1 /\ sg.s < n) THEN "assert_failed"
        ELSE LET e == from_bytes_be(hash256(to_bytes_be(sg.r) \o msg))
                 R == point_add(scalar_mul(sg.s, BITCOIN.gen.G),
                                point_neg(scalar_mul(e, to_point(public_key))))
             IN  IF R.inf THEN "unwrap_none"
                 ELSE IF R.x = sg.r THEN "true" ELSE "false"

\* dern with the 0x00 pushed at the end instead of inserted in front
dern_push(v) ==
    LET nb == to_bytes_be(v)
    IN  IF nb[1] >= 128 THEN nb \o <<0>> ELSE nb

\* dern of Signature::encode: minimal bytes, 0x00 in front of a high bit
dern(v) ==
    LET nb == to_bytes_be(v)
    IN  IF nb[1] >= 128 THEN <<0>> \o nb ELSE nb

\* Signature::encode; "as u8" keeps the low byte of a length
encode(sg) ==
    LET rb == dern(sg.r)
        sb == dern(sg.s)
        content == <<2, Len(rb) % 256>> \o rb \o <<2, Len(sb) % 256>> \o sb
    IN  <<48, Len(content) % 256>> \o content

\* the outcome of Signature::decode: a signature, or the panic that ends it
Decoded(r, s) == [status |-> "ok", r |-> r, s |-> s]

UnwrapErr == [status |-> "unwrap_err", r |-> 0, s |-> 0]

AssertFailed == [status |-> "assert_failed", r |-> 0, s |-> 0]

\* Signature::decode, read by read.  read_exact(..).unwrap() panics when the
\* cursor holds too few bytes ("unwrap_err"), an assert_eq! when a tag or a
\* length is not the expected one ("assert_failed").
decode(d) ==
    IF Len(d) < 1 THEN UnwrapErr
    ELSE IF d[1] # 48 THEN AssertFailed
    ELSE IF Len(d) < 2 THEN UnwrapErr
    ELSE IF d[2] # Len(d) - 2 THEN AssertFailed
    ELSE IF Len(d) < 3 THEN UnwrapErr
    ELSE IF d[3] # 2 THEN AssertFailed
    ELSE IF Len(d) < 4 THEN UnwrapErr
    ELSE LET rlength == d[4] IN
    IF Len(d) < 4 + rlength THEN UnwrapErr
    ELSE LET r == from_bytes_be(SubSeq(d, 5, 4 + rlength)) IN
    IF Len(d) < 5 + rlength THEN UnwrapErr
    ELSE IF d[5 + rlength] # 2 THEN AssertFailed
    ELSE IF Len(d) < 6 + rlength THEN UnwrapErr
    ELSE LET slength == d[6 + rlength] IN
    IF Len(d) < 6 + rlength + slength THEN UnwrapErr
    ELSE LET s == from_bytes_be(SubSeq(d, 7 + rlength, 6 + rlength + slength)) IN
    IF Len(d) # 6 + rlength + slength THEN AssertFailed
    ELSE Decoded(r, s)

-----------------------------------------------------------------------------
(* The callers: key generation, signing, verification *)

Messages == {<<m>> : m \in 0..MaxMsgByte}

NoSig == Signature(0, 0)

NoDecode == [status |-> "none", r |-> 0, s |-> 0]

\* no call has returned yet
NoReturn == [status |-> "none"]

\* no point at hand yet
NoPoint == [inf |-> TRUE, x |-> 0, y |-> 0]

Init ==
    /\ pc = "start"
    /\ sk1 = 0
    /\ sk2 = 0
    /\ message = <<>>
    /\ signer = 0
    /\ nonce = 0
    /\ sig = NoSig
    /\ result = "none"
    /\ der = <<>>
    /\ decoded = NoDecode
    /\ der2 = <<>>
    /\ point = NoPoint
    /\ compressed = FALSE
    /\ pkb = <<>>
    /\ ret = NoReturn
    /\ net = "none"
    /\ address = <<>>
    /\ field_a = 0
    /\ field_b = 0
    /\ field_p = 0
    /\ scalar = 0
    /\ scalar2 = 0
    /\ point2 = NoPoint
    /\ order = 0
    /\ candidate = 0
    /\ block_bits = <<>>
    /\ block_id = <<>>
    /\ varint = 0
    /\ stream = <<>>
    /\ position = 0
    /\ txdb = <<>>
    /\ input = <<>>
    /\ script = <<>>
    /\ mod_tx_enc = <<>>

\* the public key of identity 1, as gen_key_pair returns it
pk1 == from_sk(sk1)

\* gen_key_pair for identity 1
GenKeyPair1 ==
    /\ pc = "start"
    /\ sk1 = 0
    /\ \E sk \in gen_secret_key(BITCOIN.gen.n) : sk1' = sk
    /\ UNCHANGED <<pc, sk2, message, signer, nonce, sig, result, der, decoded, der2>>
    /\ UNCHANGED calc
    /\ UNCHANGED chain

\* gen_key_pair for identity 2
GenKeyPair2 ==
    /\ pc = "start"
    /\ sk1 # 0
    /\ sk2 = 0
    /\ \E sk \in gen_secret_key(BITCOIN.gen.n) : sk2' = sk
    /\ UNCHANGED <<pc, sk1, message, signer, nonce, sig, result, der, decoded, der2>>
    /\ UNCHANGED calc
    /\ UNCHANGED chain

\* identity 1 signs a message
SignEcdsa1 ==
    /\ pc = "start"
    /\ sk1 # 0
    /\ \E m \in Messages, k \in gen_secret_key(BITCOIN.gen.n) :
          /\ message' = m
          /\ nonce' = k
          /\ sig' = sign_ecdsa(sk1, m, k)
    /\ signer' = 1
    /\ pc' = "signed"
    /\ UNCHANGED <<sk1, sk2, result, der, decoded, der2>>
    /\ UNCHANGED calc
    /\ UNCHANGED chain

\* identity 2 signs a message
SignEcdsa2 ==
    /\ pc = "start"
    /\ sk1 # 0
    /\ sk2 # 0
    /\ \E m \in Messages, k \in gen_secret_key(BITCOIN.gen.n) :
          /\ message' = m
          /\ nonce' = k
          /\ sig' = sign_ecdsa(sk2, m, k)
    /\ signer' = 2
    /\ pc' = "signed"
    /\ UNCHANGED <<sk1, sk2, result, der, decoded, der2>>
    /\ UNCHANGED calc
    /\ UNCHANGED chain

\* the signature at hand is verified against the public key of identity 1
VerifyEcdsa ==
    /\ pc = "signed"
    /\ result' = verify_ecdsa(pk1, message, sig)
    /\ pc' = "verified"
    /\ UNCHANGED <<sk1, sk2, message, signer, nonce, sig, der, decoded, der2>>
    /\ UNCHANGED calc
    /\ UNCHANGED chain

Next ==
    \/ GenKeyPair1
    \/ GenKeyPair2
    \/ SignEcdsa1
    \/ SignEcdsa2
    \/ VerifyEcdsa

Spec == Init /\ [][Next]_vars

-----------------------------------------------------------------------------
(* Verification of a signature that nobody signed (test_ecdsa, lines 157-166) *)

\* a caller hands verify_ecdsa a signature made up by hand; n itself stands
\* for the values above the range
Forge ==
    /\ pc = "start"
    /\ sk1 # 0
    /\ \E m \in Messages, r \in 0..BITCOIN.gen.n, s \in 0..BITCOIN.gen.n :
          /\ message' = m
          /\ sig' = Signature(r, s)
    /\ signer' = 0
    /\ pc' = "signed"
    /\ UNCHANGED <<sk1, sk2, nonce, result, der, decoded, der2>>
    /\ UNCHANGED calc
    /\ UNCHANGED chain

NextForge ==
    \/ GenKeyPair1
    \/ Forge
    \/ VerifyEcdsa

SpecForge == Init /\ [][NextForge]_vars

-----------------------------------------------------------------------------
(* Schnorr *)

\* identity 1 signs a message
SignSchnorr ==
    /\ pc = "start"
    /\ sk1 # 0
    /\ \E m \in Messages, k \in gen_secret_key(BITCOIN.gen.n) :
          /\ message' = m
          /\ nonce' = k
          /\ sig' = sign_schnorr(sk1, m, k)
    /\ signer' = 1
    /\ pc' = "signed"
    /\ UNCHANGED <<sk1, sk2, result, der, decoded, der2>>
    /\ UNCHANGED calc
    /\ UNCHANGED chain

\* the signature at hand is verified against the public key of identity 1
VerifySchnorr ==
    /\ pc = "signed"
    /\ result' = verify_schnorr(pk1, message, sig)
    /\ pc' = "verified"
    /\ UNCHANGED <<sk1, sk2, message, signer, nonce, sig, der, decoded, der2>>
    /\ UNCHANGED calc
    /\ UNCHANGED chain

NextSchnorr ==
    \/ GenKeyPair1
    \/ SignSchnorr
    \/ VerifySchnorr

SpecSchnorr == Init /\ [][NextSchnorr]_vars

-----------------------------------------------------------------------------
(* DER: a signature is encoded and read back *)

\* the byte strings of the signature integers: at most MaxIntBytes bytes,
\* no leading zero byte, the bytes taken around the sign bit
SigByteStrings ==
    UNION {{b \in [1..L -> {0, 1, 127, 128, 255}] : b[1] # 0} : L \in 1..MaxIntBytes}

DerInts == {from_bytes_be(b) : b \in SigByteStrings}

\* a Signature value comes to hand (test_sig_der)
ChooseSig ==
    /\ pc = "start"
    /\ \E r \in DerInts, s \in DerInts : sig' = Signature(r, s)
    /\ pc' = "have_sig"
    /\ UNCHANGED <<sk1, sk2, message, signer, nonce, result, der, decoded, der2>>
    /\ UNCHANGED calc
    /\ UNCHANGED chain

\* sig.encode()
Encode ==
    /\ pc = "have_sig"
    /\ der' = encode(sig)
    /\ pc' = "encoded"
    /\ UNCHANGED <<sk1, sk2, message, signer, nonce, sig, result, decoded, der2>>
    /\ UNCHANGED calc
    /\ UNCHANGED chain

\* Signature::decode(der), of bytes this program encoded ("decoded") or of
\* bytes that came from outside ("parsed")
Decode ==
    /\ pc \in {"encoded", "received"}
    /\ decoded' = decode(der)
    /\ pc' = IF pc = "encoded" THEN "decoded" ELSE "parsed"
    /\ UNCHANGED <<sk1, sk2, message, signer, nonce, sig, result, der, der2>>
    /\ UNCHANGED calc
    /\ UNCHANGED chain

NextDer ==
    \/ ChooseSig
    \/ Encode
    \/ Decode

SpecDer == Init /\ [][NextDer]_vars

-----------------------------------------------------------------------------
(* DER: bytes from outside are decoded and encoded again *)

\* integer fields of at most MaxIntBytes bytes, the empty one included
IntStrings == UNION {[1..L -> {0, 1, 128}] : L \in 0..MaxIntBytes}

\* DER bytes arrive (a script_sig element, test_sig_der line 193): the frame
\* of two integers, with each tag right or wrong, each length right or one
\* too large, a byte too many or a byte cut off at the end
Receive ==
    /\ pc = "start"
    /\ \E rb \in IntStrings, sb \in IntStrings,
          t0 \in {48, 49}, t1 \in {2, 3}, t2 \in {2, 3},
          dl \in {0, 1}, rl \in {0, 1}, sl \in {0, 1},
          tail \in {<<>>, <<0>>}, cut \in {0, 1} :
          LET body == <<t1, Len(rb) + rl>> \o rb \o <<t2, Len(sb) + sl>> \o sb \o tail
              kept == SubSeq(body, 1, Len(body) - cut)
          IN  der' = <<t0, Len(kept) + dl>> \o kept
    /\ pc' = "received"
    /\ UNCHANGED <<sk1, sk2, message, signer, nonce, sig, result, decoded, der2>>
    /\ UNCHANGED calc
    /\ UNCHANGED chain

\* the decoded signature is encoded again
ReEncode ==
    /\ pc = "parsed"
    /\ decoded.status = "ok"
    /\ der2' = encode(Signature(decoded.r, decoded.s))
    /\ pc' = "reencoded"
    /\ UNCHANGED <<sk1, sk2, message, signer, nonce, sig, result, der, decoded>>
    /\ UNCHANGED calc
    /\ UNCHANGED chain

NextWire ==
    \/ Receive
    \/ Decode
    \/ ReEncode

SpecWire == Init /\ [][NextWire]_vars

-----------------------------------------------------------------------------
(* primitive_types::U256 and i128, as curves.rs and keys.rs use them *)

(***************************************************************************)
(* curves.rs and keys.rs compute with primitive_types::U256, whose +, -,   *)
(* *, pow and as_u128 panic when the result does not fit (in every build), *)
(* and with i128, whose + - * panic on overflow in a build with overflow   *)
(* checks (debug) and wrap in a build without (release).  Widths are       *)
(* scaled with the curve: a U256 is a word of 6 bits (2^6 is the least     *)
(* power of two above p = 43), u128 and i128 have half of that.  A prime   *)
(* of b bits in the model stands for one of about 256.b/6 bits.            *)
(***************************************************************************)

\* the outcome of a computation that panicked
Panic == 0 - 1

\* the element of a set of one element. A loop or a let of the code is
\* written  only({f(w) : w \in {v}}) : v is computed before f is entered,
\* as Rust computes an argument, or the right-hand side of a let, before
\* it goes on
only(S) == CHOOSE out \in S : TRUE

\* U256 holds 0 .. U256Modulus - 1
U256Modulus == 2^6

\* u128 holds 0 .. U128Modulus - 1, i128 holds -U128Modulus/2 .. U128Modulus/2 - 1
U128Modulus == 2^3

\* u32 holds 0 .. U32Modulus - 1
U32Modulus == 2^4

\* U256 + U256: panics on overflow
u256_add(a, b) ==
    only({IF x = Panic \/ y = Panic THEN Panic
          ELSE IF x + y >= U256Modulus THEN Panic ELSE x + y :
            x \in {a}, y \in {b}})

\* U256 - U256: panics on underflow
u256_sub(a, b) ==
    only({IF x = Panic \/ y = Panic THEN Panic
          ELSE IF x < y THEN Panic ELSE x - y :
            x \in {a}, y \in {b}})

\* U256 * U256: panics on overflow
u256_mul(a, b) ==
    only({IF x = Panic \/ y = Panic THEN Panic
          ELSE IF x * y >= U256Modulus THEN Panic ELSE x * y :
            x \in {a}, y \in {b}})

\* U256 / U256: panics on a zero divisor
u256_div(a, b) ==
    only({IF x = Panic \/ y = Panic THEN Panic
          ELSE IF y = 0 THEN Panic ELSE x \div y :
            x \in {a}, y \in {b}})

\* U256 % U256: panics on a zero divisor
u256_rem(a, b) ==
    only({IF x = Panic \/ y = Panic THEN Panic
          ELSE IF y = 0 THEN Panic ELSE x % y :
            x \in {a}, y \in {b}})

\* U256 >> k
u256_shr(a, k) == only({IF x = Panic THEN Panic ELSE x \div (2^k) : x \in {a}})

RECURSIVE u256_pow(_, _)
\* U256::pow: panics when the power does not fit
u256_pow(x, expon) ==
    IF x = Panic \/ expon = Panic THEN Panic
    ELSE IF expon = 0 THEN 1
    ELSE u256_mul(u256_pow(x, expon - 1), x)

\* U256::as_u128: panics when the value does not fit
as_u128(a) ==
    only({IF x = Panic THEN Panic
          ELSE IF x >= U128Modulus THEN Panic ELSE x : x \in {a}})

\* U256::low_u32: the low bits, never panics
low_u32(a) == IF a = Panic THEN Panic ELSE a % U32Modulus

\* `v as i128`: the two's complement reading of the low bits of v
as_i128(v) ==
    LET w == v % U128Modulus
    IN  IF w >= U128Modulus \div 2 THEN w - U128Modulus ELSE w

\* `x as u128` for an i128 x: the same bits read unsigned
i128_as_u128(x) == x % U128Modulus

\* an i128 result v: as it is when it fits; otherwise a panic with overflow
\* checks, the wrapped value without
i128_result(v, overflow_checks) ==
    IF v >= -(U128Modulus \div 2) /\ v < U128Modulus \div 2 THEN [panic |-> FALSE, v |-> v]
    ELSE IF overflow_checks THEN [panic |-> TRUE, v |-> 0]
    ELSE [panic |-> FALSE, v |-> as_i128(v)]

\* last - (quo as i128) * cur in i128, the update of s and of t in the
\* extended Euclidean algorithm: a multiplication, then a subtraction
i128_step(last, quo, cur, overflow_checks) ==
    only({IF prod.panic THEN prod
          ELSE i128_result(last - prod.v, overflow_checks) :
            prod \in {i128_result(as_i128(quo) * cur, overflow_checks)}})

-----------------------------------------------------------------------------
(* keys.rs: the SEC codec of PublicKey *)

\* U256::to_big_endian into a buffer of the width of a U256: 32 bytes in
\* the code, one 6-bit word in the model
to_big_endian(v) == <<v>>

\* the number of bytes of a U256 (32 in the code)
WordLen == Len(to_big_endian(0))

\* U256::from_big_endian of a slice of WordLen bytes
from_big_endian(b) == b[1]

\* a call that returned the point (x, y)
ReturnedPoint(x, y) == [status |-> "ok", x |-> x, y |-> y]

\* a call that panicked (an assert!, an unwrap, an index out of range, an
\* arithmetic overflow)
Panicked == [status |-> "panic"]

\* PublicKey::encode(compressed, false); the point is affine
PublicKey_encode(pt, compr) ==
    IF compr
    THEN <<IF pt.y % 2 = 0 THEN 2 ELSE 3>> \o to_big_endian(pt.x)
    ELSE <<4>> \o to_big_endian(pt.x) \o to_big_endian(pt.y)

\* PublicKey::decode(b, curve)
PublicKey_decode(b, curve) ==
    IF ~(Len(b) = 1 + WordLen \/ Len(b) = 1 + 2 * WordLen) THEN Panicked
    ELSE IF b[1] = 4
    THEN IF Len(b) < 1 + 2 * WordLen THEN Panicked
         ELSE ReturnedPoint(from_big_endian(SubSeq(b, 2, 1 + WordLen)),
                            from_big_endian(SubSeq(b, 2 + WordLen, 1 + 2 * WordLen)))
    ELSE IF ~(b[1] = 2 \/ b[1] = 3) THEN Panicked
    ELSE
      LET is_even == b[1] = 2
          x == from_big_endian(SubSeq(b, 2, 1 + WordLen))
          y2 == u256_rem(u256_add(u256_pow(x, 3), 7), curve.p)
          exponent == low_u32(u256_shr(u256_add(curve.p, 1), 2))
          y0 == u256_pow(y2, exponent)
          y == IF y0 = Panic THEN Panic
               ELSE IF (y0 % 2 = 0) # is_even THEN u256_sub(curve.p, y0)
               ELSE y0
      IN  IF y = Panic THEN Panicked ELSE ReturnedPoint(x, y)

\* y^2 = x^3 + 7 (mod p), for coordinates of any size
OnCurve(x, y) ==
    (y * y) % BITCOIN.gen.curve.p
        = (x * x * x + BITCOIN.gen.curve.b) % BITCOIN.gen.curve.p

\* the affine points of the curve
CurvePoints ==
    {Affine(c[1], c[2]) :
        c \in {d \in (0..(BITCOIN.gen.curve.p - 1)) \X (0..(BITCOIN.gen.curve.p - 1)) :
                  OnCurve(d[1], d[2])}}

\* a public key is at hand, with a choice of encoding
ChoosePublicKey ==
    /\ pc = "start"
    /\ \E Q \in CurvePoints : point' = Q
    /\ \E c \in BOOLEAN : compressed' = c
    /\ pc' = "key"
    /\ UNCHANGED <<result, sigstate, chain, pkb, ret, net, address, field, curveops>>

\* PublicKey(point).encode(compressed, false)
EncodeSec ==
    /\ pc = "key"
    /\ pkb' = PublicKey_encode(point, compressed)
    /\ pc' = "sec_encoded"
    /\ UNCHANGED <<result, sigstate, chain, point, compressed, ret, net, address, field, curveops>>

\* PublicKey::decode of the bytes at hand
DecodeSec ==
    /\ pc \in {"sec_encoded", "sec_received"}
    /\ ret' = PublicKey_decode(pkb, BITCOIN.gen.curve)
    /\ pc' = IF pc = "sec_encoded" THEN "sec_decoded" ELSE "sec_parsed"
    /\ UNCHANGED <<result, sigstate, chain, point, compressed, pkb, net, address, field, curveops>>

NextSec ==
    \/ ChoosePublicKey
    \/ EncodeSec
    \/ DecodeSec

SpecSec == Init /\ [][NextSec]_vars

\* the words an incoming key is made of: the ends of the ranges [0, p) and
\* [p, 2^6), and the coordinates of G
WireWords ==
    {0, 1, BITCOIN.gen.G.x, BITCOIN.gen.G.y, BITCOIN.gen.curve.p - 1,
     BITCOIN.gen.curve.p, U256Modulus - 1}

\* bytes arrive from outside: any prefix byte, then up to three words
ReceiveSec ==
    /\ pc = "start"
    /\ \E prefix \in {0, 2, 3, 4, 5}, L \in 0..(1 + 2 * WordLen) :
         \E body \in [1..L -> WireWords] : pkb' = <<prefix>> \o body
    /\ pc' = "sec_received"
    /\ UNCHANGED <<result, sigstate, chain, point, compressed, ret, net, address, field, curveops>>

NextSecWire ==
    \/ ReceiveSec
    \/ DecodeSec

SpecSecWire == Init /\ [][NextSecWire]_vars

-----------------------------------------------------------------------------
(* keys.rs: Base58Check addresses *)

(***************************************************************************)
(* A payload is version byte, HASH160 and checksum: 25 bytes in the code,  *)
(* 3 in the model (hash and checksum have one byte each).  A payload is    *)
(* shorter than a U256, so from_big_endian and the arithmetic of b58encode *)
(* and b58decode on it never overflow; they are modelled on unbounded      *)
(* integers.  The hash functions are small mixing functions.               *)
(***************************************************************************)

\* sha2::Sha256::digest, cut to one byte
Sha256_digest(b) == <<(7 * from_bytes_be(b) + 13) % DigestModulus>>

\* ripemd160::ripemd160, cut to one byte
ripemd160(b) == <<(5 * from_bytes_be(b) + 11) % DigestModulus>>

\* PublicKey::encode(compressed, true): the HASH160 of the SEC bytes
PublicKey_encode_hash160(pt, compr) ==
    ripemd160(Sha256_digest(PublicKey_encode(pt, compr)))

\* the number of characters of ALPHABET
AlphabetLen == 58

RECURSIVE b58digits(_)
\* the loop of b58encode: the digits of n in base 58, most significant
\* first (chars.iter().rev())
b58digits(n) ==
    IF n > 0 THEN b58digits(n \div AlphabetLen) \o <<n % AlphabetLen>> ELSE <<>>

RECURSIVE leading(_, _)
\* take_while(|x| x == z).count(): the number of leading z of sequence b
leading(b, z) ==
    IF b # <<>> /\ b[1] = z THEN 1 + leading(Tail(b), z) ELSE 0

\* b58encode
b58encode(b) ==
    [i \in 1..leading(b, 0) |-> 0] \o b58digits(from_bytes_be(b))

RECURSIVE b58value(_)
\* the first loop of b58decode: n = n * 58 + ALPHABET.find(c)
b58value(res) ==
    IF res = <<>> THEN 0
    ELSE b58value(SubSeq(res, 1, Len(res) - 1)) * AlphabetLen + res[Len(res)]

\* U256::to_big_endian(&mut buf): writes the bytes of v into buf, which has
\* to have the length of a U256; panics otherwise
write_big_endian(v, buf, width) ==
    IF Len(buf) # width THEN [panic |-> TRUE, bytes |-> <<>>]
    ELSE [panic |-> FALSE,
          bytes |-> [i \in 1..width |-> (v \div (256 ^ (width - i))) % 256]]

\* the length of a U256 in the bytes of a payload: the payload and 7 more
PayloadWordLen == 1 + Len(ripemd160(<<>>)) + Len(Sha256_digest(<<>>)) + 7

\* a call that returned the bytes b
ReturnedBytes(b) == [status |-> "ok", bytes |-> b]

\* b58decode: byte_vec is Vec::new(), the empty buffer
b58decode(res) ==
    LET n == b58value(res)
        byte_vec == write_big_endian(n, <<>>, PayloadWordLen)
        num_leading_zeros == leading(res, 0)
    IN  IF byte_vec.panic THEN Panicked
        ELSE ReturnedBytes([i \in 1..num_leading_zeros |-> 0] \o byte_vec.bytes)

\* the bytes of the HASH160 and of the payload before the checksum
HashLen == Len(ripemd160(<<>>))

\* PublicKey::address; net is "main" or "test"
PublicKey_address(pt, nt, compr) ==
    LET pkb_hash == PublicKey_encode_hash160(pt, compr)
        version == IF nt = "main" THEN 0 ELSE 111
        ver_pkb_hash == <<version>> \o pkb_hash
        checksum == Sha256_digest(Sha256_digest(ver_pkb_hash))
    IN  b58encode(ver_pkb_hash \o checksum)

\* address_to_pkb_hash
address_to_pkb_hash(b58check_address) ==
    LET byte_address == b58decode(b58check_address)
    IN  IF byte_address.status # "ok" THEN Panicked
        ELSE IF Len(byte_address.bytes) < 1 + HashLen THEN Panicked
        ELSE LET checksum == Sha256_digest(Sha256_digest(
                                 SubSeq(byte_address.bytes, 1, 1 + HashLen)))
             IN  IF SubSeq(byte_address.bytes, 2 + HashLen, Len(byte_address.bytes))
                        # checksum
                 THEN Panicked
                 ELSE ReturnedBytes(SubSeq(byte_address.bytes, 2, 1 + HashLen))

\* pk.address(net, compressed)
Address ==
    /\ pc = "key"
    /\ \E nt \in {"main", "test"} :
         /\ net' = nt
         /\ address' = PublicKey_address(point, nt, compressed)
    /\ pc' = "address"
    /\ UNCHANGED <<result, sigstate, chain, point, compressed, pkb, ret, field, curveops>>

\* address_to_pkb_hash(address)
AddressToPkbHash ==
    /\ pc = "address"
    /\ ret' = address_to_pkb_hash(address)
    /\ pc' = "address_decoded"
    /\ UNCHANGED <<result, sigstate, chain, point, compressed, pkb, net, address, field, curveops>>

NextAddress ==
    \/ ChoosePublicKey
    \/ Address
    \/ AddressToPkbHash

SpecAddress == Init /\ [][NextAddress]_vars

-----------------------------------------------------------------------------
(* ru256.rs: modular arithmetic of RU256; curves.rs: inv *)

RECURSIVE bits(_)
\* U256::bits: the number of significant bits
bits(v) == IF v = 0 THEN 0 ELSE 1 + bits(v \div 2)

\* U256::bit(i)
bit(v, i) == (v \div (2^i)) % 2 = 1

\* U256::overflowing_add
overflowing_add(x1, x2) ==
    [v |-> (x1 + x2) % U256Modulus, overflow |-> x1 + x2 >= U256Modulus]

\* U256::overflowing_sub, the value
overflowing_sub(x1, x2) == (x1 - x2) % U256Modulus

\* add_mod without the test of the carry
add_mod_no_carry(a, b, p) ==
    LET x1 == a % p
        x2 == b % p
        x3 == overflowing_add(x1, x2)
    IN  IF x3.v >= p THEN overflowing_sub(x3.v, p) ELSE x3.v

\* RU256::add_mod
add_mod(a, b, p) ==
    LET x1 == a % p
        x2 == b % p
        x3 == overflowing_add(x1, x2)
    IN  IF x3.overflow \/ x3.v >= p THEN overflowing_sub(x3.v, p) ELSE x3.v

\* RU256::sub_mod
sub_mod(a, b, p) ==
    LET x1 == a % p
        x2 == b % p
    IN  IF x1 >= x2 THEN (x1 - x2) % p ELSE (p - (x2 - x1)) % p

\* one iteration of the loop of mul_mod, for bit i of x1
mul_mod_step(before, i, x1, p) ==
    [result |-> IF bit(x1, i) THEN add_mod(before.result, before.adder, p)
                ELSE before.result,
     adder |-> add_mod(before.adder, before.adder, p)]

RECURSIVE mul_mod_loop(_, _, _, _)
\* the loop of mul_mod: result and adder after the iterations for the
\* bits 0 .. i - 1 of x1
mul_mod_loop(i, x1, x2, p) ==
    IF i = 0 THEN [result |-> 0, adder |-> x2]
    ELSE only({mul_mod_step(before, i - 1, x1, p) :
                  before \in {mul_mod_loop(i - 1, x1, x2, p)}})

\* RU256::mul_mod
mul_mod(a, b, p) == mul_mod_loop(bits(a % p), a % p, b % p, p).result

\* one iteration of the loop of exp_mod, for bit i of e
exp_mod_step(before, i, e, p) ==
    [result |-> IF bit(e, i) THEN mul_mod(before.result, before.multiplier, p)
                ELSE before.result,
     multiplier |-> mul_mod(before.multiplier, before.multiplier, p)]

RECURSIVE exp_mod_loop(_, _, _, _)
\* the loop of exp_mod: result and multiplier after the iterations for the
\* bits 0 .. i - 1 of e
exp_mod_loop(i, a, e, p) ==
    IF i = 0 THEN [result |-> 1, multiplier |-> a % p]
    ELSE only({exp_mod_step(before, i - 1, e, p) :
                  before \in {exp_mod_loop(i - 1, a, e, p)}})

\* RU256::exp_mod
exp_mod(a, e, p) == exp_mod_loop(bits(e), a, e, p).result

\* a call that returned the number v
Returned(v) == [status |-> "ok", v |-> v]

\* RU256::div_mod
div_mod(a, b, p) ==
    IF ~(p > 2) THEN Panicked
    ELSE only({Returned(mul_mod(a, b_inv, p)) :
                  b_inv \in {exp_mod(b, p - 2, p)}})

\* one iteration of the loop of extended_euclidean_algorithm: quo and the
\* new r, s and t; s and t are i128
extended_euclidean_algorithm_step(last_r, r, last_s, s, last_t, t, overflow_checks) ==
    only({[quo |-> quo,
           r |-> u256_sub(last_r, u256_mul(quo, r)),
           s |-> i128_step(last_s, quo, s, overflow_checks),
           t |-> i128_step(last_t, quo, t, overflow_checks)] :
            quo \in {u256_div(last_r, r)}})

RECURSIVE extended_euclidean_algorithm_loop(_, _, _, _, _, _, _)
\* the loop of extended_euclidean_algorithm
extended_euclidean_algorithm_loop(last_r, r, last_s, s, last_t, t, overflow_checks) ==
    IF ~(r > 0) THEN [panic |-> FALSE, r |-> last_r, s |-> last_s, t |-> last_t]
    ELSE
      only({IF new.r = Panic \/ as_u128(new.quo) = Panic THEN [panic |-> TRUE]
            ELSE IF new.s.panic \/ new.t.panic THEN [panic |-> TRUE]
            ELSE extended_euclidean_algorithm_loop(r, new.r, s, new.s.v, t, new.t.v,
                                                   overflow_checks) :
              new \in {extended_euclidean_algorithm_step(last_r, r, last_s, s,
                                                         last_t, t, overflow_checks)}})

\* curves.rs: extended_euclidean_algorithm
extended_euclidean_algorithm(a, b, overflow_checks) ==
    extended_euclidean_algorithm_loop(a, b, 1, 0, 0, 1, overflow_checks)

\* what inv returns when the extended Euclidean algorithm returned e
inv_result(e, p, overflow_checks) ==
    IF e.panic THEN Panicked
    ELSE IF e.s < 0
    THEN IF as_u128(p) = Panic THEN Panicked
         ELSE LET x == i128_result(e.s + as_i128(as_u128(p)), overflow_checks)
              IN  IF x.panic THEN Panicked
                  ELSE IF p = 0 THEN Panicked
                  ELSE Returned(i128_as_u128(x.v) % p)
    ELSE IF p = 0 THEN Panicked
    ELSE Returned(i128_as_u128(e.s) % p)

\* curves.rs: inv(n, p)
inv(n, p, overflow_checks) ==
    only({inv_result(e, p, overflow_checks) :
            e \in {extended_euclidean_algorithm(n, p, overflow_checks)}})

\* the moduli of the model: small and large, prime and composite
Moduli == {2, 3, 5, 7, 31, 32, 43, 61, U256Modulus - 1}

\* the primes among them
Primes == {m \in Moduli : \A d \in 2..(m - 1) : m % d # 0}

\* the operands of a field operation are at hand
ChooseOperands ==
    /\ pc = "start"
    /\ \E a \in 0..(U256Modulus - 1), b \in 0..(U256Modulus - 1), m \in Moduli :
         /\ field_a' = a
         /\ field_b' = b
         /\ field_p' = m
    /\ pc' = "operands"
    /\ UNCHANGED <<result, sigstate, chain, point, compressed, pkb, ret, net, address, curveops>>

\* a.add_mod(b, p)
AddMod ==
    /\ pc = "operands"
    /\ ret' = Returned(add_mod(field_a, field_b, field_p))
    /\ pc' = "add_mod"
    /\ UNCHANGED <<result, sigstate, chain, point, compressed, pkb, net, address, field, curveops>>

\* a.sub_mod(b, p)
SubMod ==
    /\ pc = "operands"
    /\ ret' = Returned(sub_mod(field_a, field_b, field_p))
    /\ pc' = "sub_mod"
    /\ UNCHANGED <<result, sigstate, chain, point, compressed, pkb, net, address, field, curveops>>

\* a.mul_mod(b, p)
MulMod ==
    /\ pc = "operands"
    /\ ret' = Returned(mul_mod(field_a, field_b, field_p))
    /\ pc' = "mul_mod"
    /\ UNCHANGED <<result, sigstate, chain, point, compressed, pkb, net, address, field, curveops>>

\* a.exp_mod(b, p)
ExpMod ==
    /\ pc = "operands"
    /\ ret' = Returned(exp_mod(field_a, field_b, field_p))
    /\ pc' = "exp_mod"
    /\ UNCHANGED <<result, sigstate, chain, point, compressed, pkb, net, address, field, curveops>>

\* a.div_mod(b, p)
DivMod ==
    /\ pc = "operands"
    /\ ret' = div_mod(field_a, field_b, field_p)
    /\ pc' = "div_mod"
    /\ UNCHANGED <<result, sigstate, chain, point, compressed, pkb, net, address, field, curveops>>

\* curves::inv(b, p), in a build with or without overflow checks
Inv ==
    /\ pc = "operands"
    /\ \E overflow_checks \in BOOLEAN :
         ret' = inv(field_b, field_p, overflow_checks)
    /\ pc' = "inv"
    /\ UNCHANGED <<result, sigstate, chain, point, compressed, pkb, net, address, field, curveops>>

NextField ==
    \/ ChooseOperands
    \/ AddMod
    \/ SubMod
    \/ MulMod
    \/ ExpMod
    \/ DivMod
    \/ Inv

SpecField == Init /\ [][NextField]_vars

-----------------------------------------------------------------------------
(* secp256k1.rs: points over RU256 *)

\* secp256k1.rs: Point { x, y }
Point(x, y) == [x |-> x, y |-> y]

\* SECP256K1::zero_point
zero_point == Point(0, 0)

\* Point::is_zero_point
is_zero_point(pt) == pt.x = 0 /\ pt.y = 0

\* SECP256K1::p, SECP256K1::g and SECP256K1::n: the parameters of the curve
SECP256K1 ==
    [p |-> BITCOIN.gen.curve.p,
     g |-> Point(BITCOIN.gen.G.x, BITCOIN.gen.G.y),
     n |-> BITCOIN.gen.n]

\* a point operation that panicked
PanicPoint == Point(Panic, Panic)

\* the value of div_mod, or Panic
div_mod_value(a, b, p) ==
    LET d == div_mod(a, b, p) IN IF d.status = "ok" THEN d.v ELSE Panic

\* the point that add_points and double_point return for the slope lambda
\* of the line through p1 and p2
point_on_line(lambda, p1, p2, p) ==
    LET x3 == sub_mod(sub_mod(mul_mod(lambda, lambda, p), p1.x, p), p2.x, p)
        y3 == sub_mod(mul_mod(sub_mod(p1.x, x3, p), lambda, p), p1.y, p)
    IN  IF lambda = Panic THEN PanicPoint ELSE Point(x3, y3)

\* SECP256K1::add_points
add_points(p1, p2) ==
    IF p1.x = Panic \/ p2.x = Panic THEN PanicPoint
    ELSE IF ~(p1 # p2) THEN PanicPoint
    ELSE IF is_zero_point(p1) THEN p2
    ELSE IF is_zero_point(p2) THEN p1
    ELSE
      LET p == SECP256K1.p
          y_diff == sub_mod(p1.y, p2.y, p)
          x_diff == sub_mod(p1.x, p2.x, p)
      IN  only({point_on_line(lambda, p1, p2, p) :
                  lambda \in {div_mod_value(y_diff, x_diff, p)}})

\* SECP256K1::double_point
double_point(p1) ==
    IF p1.x = Panic THEN PanicPoint
    ELSE IF is_zero_point(p1) THEN zero_point
    ELSE IF p1.y = 0 THEN zero_point
    ELSE
      LET p == SECP256K1.p
          three_x_square == mul_mod(mul_mod(p1.x, p1.x, p), 3, p)
          two_y == mul_mod(p1.y, 2, p)
      IN  only({point_on_line(lambda, p1, p1, p) :
                  lambda \in {div_mod_value(three_x_square, two_y, p)}})

\* one iteration of the loop of scalar_multiplication, for bit i of the
\* scalar: the values of `result` so far (before) and those it takes now
scalar_multiplication_step(before, sc, adder, i) ==
    IF before[Len(before)].x = Panic THEN before
    ELSE only({(IF bit(sc, i)
                THEN before \o <<doubled, add_points(doubled, adder)>>
                ELSE before \o <<doubled>>) :
                  doubled \in {double_point(before[Len(before)])}})

RECURSIVE scalar_multiplication_ladder(_, _, _)
\* the loop of scalar_multiplication without precomputed points: the values
\* `result` has taken, in order, when the bits above bit i of the scalar
\* are done; a panic ends the loop
scalar_multiplication_ladder(sc, adder, i) ==
    IF i >= bits(sc) THEN <<zero_point>>
    ELSE only({scalar_multiplication_step(before, sc, adder, i) :
                  before \in {scalar_multiplication_ladder(sc, adder, i + 1)}})

\* SECP256K1::scalar_multiplication(scalar, curve_point, false)
scalar_multiplication(sc, curve_point) ==
    LET ladder == scalar_multiplication_ladder(sc, curve_point, 0)
    IN  ladder[Len(ladder)]

\* SECP256K1::public_key
public_key(private_key) == scalar_multiplication(private_key, SECP256K1.g)

-----------------------------------------------------------------------------
(* curves.rs: points over U256 *)

\* curves.rs: INF, the point with x = None and y = None.  Its curve field
\* differs from that of every other point, as inf does here
INF == [inf |-> TRUE, x |-> 0, y |-> 0]

\* a point operation that panicked
PanicCurvePoint == [inf |-> FALSE, x |-> Panic, y |-> Panic]

\* the value of inv, or Panic
inv_value(n, p, overflow_checks) ==
    only({IF v.status = "ok" THEN v.v ELSE Panic : v \in {inv(n, p, overflow_checks)}})

\* the slope m of impl Add for Point
Point_add_slope(self, other, curve, overflow_checks) ==
    LET p == curve.p
    IN  IF self.x = other.x
        THEN only({u256_rem(u256_mul(numerator,
                                     inv_value(denominator, p, overflow_checks)), p) :
                     numerator \in {u256_rem(u256_add(u256_mul(3, u256_pow(self.x, 2)),
                                                      curve.a), p)},
                     denominator \in {u256_rem(u256_mul(2, self.y), p)}})
        ELSE only({u256_rem(u256_mul(numerator,
                                     inv_value(denominator, p, overflow_checks)), p) :
                     numerator \in {u256_rem(u256_sub(u256_add(self.y, p), other.y), p)},
                     denominator \in {u256_rem(u256_sub(u256_add(self.x, p), other.x), p)}})

\* rx of impl Add for Point, for the slope m
Point_add_rx(m, self, other, p) ==
    u256_rem(u256_sub(u256_add(u256_sub(u256_add(u256_pow(m, 2), p), self.x), p),
                      other.x), p)

\* ry of impl Add for Point, for the slope m and rx
Point_add_ry(m, rx, self, p) ==
    u256_rem(u256_sub(u256_add(u256_mul(m, u256_sub(u256_add(self.x, p), rx)), p),
                      self.y), p)

\* the point that impl Add for Point returns for the slope m
Point_add_result(m, self, other, p) ==
    only({only({IF rx = Panic \/ ry = Panic THEN PanicCurvePoint ELSE Affine(rx, ry) :
                  ry \in {Point_add_ry(m, rx, self, p)}}) :
            rx \in {Point_add_rx(m, self, other, p)}})

\* impl Add for Point: self + other, on the curve `curve`
Point_add(self, other, curve, overflow_checks) ==
    IF self.x = Panic \/ other.x = Panic THEN PanicCurvePoint
    ELSE IF self = INF THEN other
    ELSE IF other = INF THEN self
    ELSE IF self.x = other.x /\ self.y # other.y THEN INF
    ELSE
      only({Point_add_result(m, self, other, curve.p) :
              m \in {Point_add_slope(self, other, curve, overflow_checks)}})

\* one iteration of the loop of impl Mul<U256> for Point, in which k has
\* been shifted i times; a panic in the addition or in the doubling of
\* append ends the call
Point_mul_step(before, k, i, curve, overflow_checks) ==
    IF before.result.x = Panic THEN before
    ELSE only({IF result2.x = Panic \/ append2.x = Panic
               THEN [result |-> PanicCurvePoint, append |-> PanicCurvePoint]
               ELSE [result |-> result2, append |-> append2] :
                 result2 \in {IF bit(k, i)
                              THEN Point_add(before.result, before.append, curve,
                                             overflow_checks)
                              ELSE before.result},
                 append2 \in {Point_add(before.append, before.append, curve,
                                        overflow_checks)}})

RECURSIVE Point_mul_loop(_, _, _, _, _)
\* the loop of impl Mul<U256> for Point: result and append after i
\* iterations
Point_mul_loop(i, self, k, curve, overflow_checks) ==
    IF i = 0 THEN [result |-> INF, append |-> self]
    ELSE only({Point_mul_step(before, k, i - 1, curve, overflow_checks) :
                  before \in {Point_mul_loop(i - 1, self, k, curve, overflow_checks)}})

\* impl Mul<U256> for Point: self * k
Point_mul(self, k, curve, overflow_checks) ==
    LET res == Point_mul_loop(bits(k), self, k, curve, overflow_checks).result
    IN  IF res.x = Panic THEN PanicCurvePoint
        ELSE IF res.inf THEN res
        ELSE Affine(res.x % curve.p, res.y % curve.p)

\* PublicKey::from_sk of keys.rs: sk * G
PublicKey_from_sk(sk, gen, overflow_checks) ==
    Point_mul(gen.G, sk, gen.curve, overflow_checks)

-----------------------------------------------------------------------------
(* Callers of the curve layer *)

\* what a call of secp256k1.rs returned: a Point, or a panic
ReturnedRU(pt) ==
    IF pt.x = Panic THEN Panicked ELSE ReturnedPoint(pt.x, pt.y)

\* what a call of curves.rs returned: a Point (INF has no coordinates), or
\* a panic
ReturnedU(pt) ==
    IF pt.x = Panic THEN Panicked
    ELSE [status |-> "ok", inf |-> pt.inf, x |-> pt.x, y |-> pt.y]

\* a scalar of the width of a U256 and a point of the curve are at hand
ChooseScalar ==
    /\ pc = "start"
    /\ \E k \in 0..(U256Modulus - 1) : scalar' = k
    /\ \E P \in CurvePoints : point' = P
    /\ pc' = "scalar"
    /\ UNCHANGED <<result, sigstate, chain, compressed, pkb, ret, net, address, field,
                   scalar2, point2>>

\* SECP256K1::scalar_multiplication(scalar, point, false)
ScalarMultiplication ==
    /\ pc = "scalar"
    /\ ret' = ReturnedRU(scalar_multiplication(scalar, Point(point.x, point.y)))
    /\ pc' = "scalar_multiplication"
    /\ UNCHANGED <<result, sigstate, chain, point, compressed, pkb, net, address, field,
                   curveops>>

\* point * scalar of curves.rs, in a build with or without overflow checks
PointMul ==
    /\ pc = "scalar"
    /\ \E overflow_checks \in BOOLEAN :
         ret' = ReturnedU(Point_mul(point, scalar, BITCOIN.gen.curve, overflow_checks))
    /\ pc' = "point_mul"
    /\ UNCHANGED <<result, sigstate, chain, point, compressed, pkb, net, address, field,
                   curveops>>

NextScalar ==
    \/ ChooseScalar
    \/ ScalarMultiplication
    \/ PointMul

SpecScalar == Init /\ [][NextScalar]_vars

\* two multiples of G are at hand: point = scalar.G and point2 = scalar2.G
ChooseMultiples ==
    /\ pc = "start"
    /\ \E k1 \in 0..(BITCOIN.gen.n - 1), k2 \in 0..(BITCOIN.gen.n - 1) :
         /\ scalar' = k1
         /\ scalar2' = k2
         /\ point' = scalar_mul(k1, BITCOIN.gen.G)
         /\ point2' = scalar_mul(k2, BITCOIN.gen.G)
    /\ pc' = "multiples"
    /\ UNCHANGED <<result, sigstate, chain, compressed, pkb, ret, net, address, field>>

\* SECP256K1::add_points(point, point2)
AddPoints ==
    /\ pc = "multiples"
    /\ ret' = ReturnedRU(add_points(Point(point.x, point.y), Point(point2.x, point2.y)))
    /\ pc' = "add_points"
    /\ UNCHANGED <<result, sigstate, chain, point, compressed, pkb, net, address, field,
                   curveops>>

\* point + point2 of curves.rs, in a build with or without overflow checks
PointAdd ==
    /\ pc = "multiples"
    /\ \E overflow_checks \in BOOLEAN :
         ret' = ReturnedU(Point_add(point, point2, BITCOIN.gen.curve, overflow_checks))
    /\ pc' = "point_add"
    /\ UNCHANGED <<result, sigstate, chain, point, compressed, pkb, net, address, field,
                   curveops>>

NextAdd ==
    \/ ChooseMultiples
    \/ AddPoints
    \/ PointAdd

SpecAdd == Init /\ [][NextAdd]_vars

\* one iteration of the loop of gen_secret_key: 32 random bytes make the
\* candidate key, which is returned when it is in [1, n) and redrawn when not
GenSecretKeyDraw ==
    /\ pc = "start"
    /\ \E key \in 0..(U256Modulus - 1) :
         /\ scalar' = key
         /\ pc' = IF key >= 1 /\ key < BITCOIN.gen.n THEN "sk" ELSE "start"
    /\ UNCHANGED <<result, sigstate, chain, point, compressed, pkb, ret, net, address, field,
                   scalar2, point2>>

\* SECP256K1::public_key(sk)
DerivePublicKey ==
    /\ pc = "sk"
    /\ ret' = ReturnedRU(public_key(scalar))
    /\ pc' = "public_key"
    /\ UNCHANGED <<result, sigstate, chain, point, compressed, pkb, net, address, field,
                   curveops>>

\* PublicKey::from_sk(sk, BITCOIN.gen) of keys.rs, in a build with or
\* without overflow checks
FromSk ==
    /\ pc = "sk"
    /\ \E overflow_checks \in BOOLEAN :
         ret' = ReturnedU(PublicKey_from_sk(scalar, BITCOIN.gen, overflow_checks))
    /\ pc' = "from_sk"
    /\ UNCHANGED <<result, sigstate, chain, point, compressed, pkb, net, address, field,
                   curveops>>

NextDerive ==
    \/ GenSecretKeyDraw
    \/ DerivePublicKey
    \/ FromSk

SpecDerive == Init /\ [][NextDerive]_vars

-----------------------------------------------------------------------------
(* keys.rs: gen_secret_key *)

\* the test of the loop with the upper end included
key_in_range_closed(key, n) == key >= 1 /\ key <= n

\* the test of the loop of gen_secret_key on the key it drew
key_in_range(key, n) == key >= 1 /\ key < n

\* gen_secret_key(n) is called; n is any U256
CallGenSecretKey ==
    /\ pc = "start"
    /\ \E n \in 0..(U256Modulus - 1) : order' = n
    /\ pc' = "gen_secret_key"
    /\ UNCHANGED <<result, sigstate, calc, candidate, block, reader, txdb, input, scripting>>

\* one iteration of the loop of gen_secret_key in which the 32 random
\* bytes make the number key: the key is returned when the test holds, and
\* the loop goes round when not
GenSecretKeyIteration(key) ==
    /\ pc = "gen_secret_key"
    /\ candidate' = key
    /\ IF key_in_range(key, order)
       THEN /\ ret' = Returned(key)
            /\ pc' = "key_returned"
       ELSE UNCHANGED <<ret, pc>>
    /\ UNCHANGED <<result, sigstate, operands, order, block, reader, txdb, input, scripting>>

\* one iteration, whatever the random source yields
GenSecretKeyLoop == \E key \in 0..(U256Modulus - 1) : GenSecretKeyIteration(key)

\* an iteration in which the random source yields a key of [1, n)
InRangeDraw ==
    \E key \in 0..(U256Modulus - 1) :
        key_in_range(key, order) /\ GenSecretKeyIteration(key)

NextGen ==
    \/ CallGenSecretKey
    \/ GenSecretKeyLoop

\* the random source is fair: it does not withhold the keys of [1, n) for ever
SpecGen == Init /\ [][NextGen]_vars /\ WF_vars(InRangeDraw)

-----------------------------------------------------------------------------
(* block.rs: the compact target and Block::validate *)

(***************************************************************************)
(* Scaling.  A byte of the model has 3 bits and a Uint256 has UintBytes    *)
(* of them, so the compact form keeps its shape: three bytes of            *)
(* coefficient, one byte of exponent, and exponents for which              *)
(* coeff * 256^(exp - 3) fits the word and exponents for which it does not.*)
(***************************************************************************)

\* a byte holds 0 .. ByteModulus - 1
ByteModulus == 2^3

\* the number of bytes of a Uint256 (32 in the code)
UintBytes == 5

\* Uint256 holds 0 .. UintModulus - 1
UintModulus == ByteModulus^UintBytes

\* Vec::reverse
RECURSIVE reverse(_)
reverse(b) == IF b = <<>> THEN <<>> ELSE Append(reverse(Tail(b)), Head(b))

RECURSIVE Uint256_from_be_bytes(_)
\* Uint256::from_be_bytes: the first byte is the most significant
Uint256_from_be_bytes(b) ==
    IF b = <<>> THEN 0
    ELSE Uint256_from_be_bytes(SubSeq(b, 1, Len(b) - 1)) * ByteModulus + b[Len(b)]

\* Uint256::to_bytes, each word to_le_bytes: the bytes of the number, the
\* least significant first
Uint256_to_le_bytes(v) == [i \in 1..UintBytes |-> (v \div ByteModulus^(i - 1)) % ByteModulus]

\* the bytes of the number v, the most significant first
Uint256_to_be_bytes(v) == reverse(Uint256_to_le_bytes(v))

\* Uint256 * Uint256: the product in the word, the bits above it are lost
Uint256_mul(a, b) == (a * b) % UintModulus

RECURSIVE pow(_, _)
\* pow(base, exponent) of curves.rs: base^exponent in Uint256
pow(base, exponent) ==
    IF exponent = 0 THEN 1
    ELSE only({Uint256_mul(before, base) : before \in {pow(base, exponent - 1)}})

\* bits_to_target; exponent - 3 is a u8 subtraction: below 3 it panics in
\* a build with overflow checks and wraps in one without
bits_to_target(bits4, overflow_checks) ==
    LET exponent == bits4[4]
        coeff_bytes == reverse(SubSeq(bits4, 1, 3))
        coeff_array == [i \in 1..UintBytes |->
                           IF i <= Len(coeff_bytes) THEN coeff_bytes[i] ELSE 0]
        coeff == Uint256_from_be_bytes(coeff_array)
    IN  IF exponent < 3 /\ overflow_checks THEN Panic
        ELSE Uint256_mul(coeff, pow(ByteModulus, (exponent - 3) % ByteModulus))

RECURSIVE strip_leading_zeros(_)
\* the loop of target_to_bits: while b.len() > 1 && b[0] == 0, b.remove(0)
strip_leading_zeros(b) ==
    IF Len(b) > 1 /\ b[1] = 0 THEN strip_leading_zeros(Tail(b)) ELSE b

\* target_to_bits
target_to_bits(target) ==
    LET b == strip_leading_zeros(Uint256_to_le_bytes(target))
        exponent == Len(b)
        coeff == IF Len(b) >= 3 THEN SubSeq(b, 1, 3)
                 ELSE [i \in 1..3 |-> IF i <= Len(b) THEN b[i] ELSE 0]
    IN  Append(reverse(coeff), exponent)

\* Block::target
Block_target(bits4, overflow_checks) == bits_to_target(bits4, overflow_checks)

\* Block::validate of a block with the ID id, 32 bytes
Block_validate(id, bits4, overflow_checks) ==
    LET header == Uint256_from_be_bytes(id)
        target == Block_target(bits4, overflow_checks)
    IN  IF target = Panic THEN Panicked
        ELSE IF header >= target THEN Returned(FALSE)
        ELSE Returned(TRUE)

\* the coefficient of a bits field: the little-endian number of its first
\* three bytes
Coefficient(bits4) == bits4[1] + bits4[2] * ByteModulus + bits4[3] * ByteModulus^2

\* the IDs the model tries against a bits field: the ends of the word and
\* the numbers around coeff * 256^(exp - 3)
HeaderIds(bits4) ==
    LET around == Coefficient(bits4) * ByteModulus^((bits4[4] - 3) % ByteModulus)
    IN  {v \in {0, 1, around - 1, around, around + 1, UintModulus - 1} :
            v >= 0 /\ v < UintModulus}

\* a block header is at hand (Block::decode read it): any 4 bytes of bits
DecodeBlock ==
    /\ pc = "start"
    /\ \E bits4 \in [1..4 -> 0..(ByteModulus - 1)] :
         /\ block_bits' = bits4
         /\ \E v \in HeaderIds(bits4) : block_id' = Uint256_to_be_bytes(v)
    /\ pc' = "block"
    /\ UNCHANGED <<result, sigstate, calc, keygen, reader, txdb, input, scripting>>

\* block.target()
BlockTarget ==
    /\ pc = "block"
    /\ \E overflow_checks \in BOOLEAN :
         ret' = only({IF target = Panic THEN Panicked ELSE Returned(target) :
                        target \in {Block_target(block_bits, overflow_checks)}})
    /\ pc' = "target"
    /\ UNCHANGED <<result, sigstate, operands, chain>>

\* block.validate()
BlockValidate ==
    /\ pc = "block"
    /\ \E overflow_checks \in BOOLEAN :
         ret' = Block_validate(block_id, block_bits, overflow_checks)
    /\ pc' = "validate"
    /\ UNCHANGED <<result, sigstate, operands, chain>>

\* target_to_bits(bits_to_target(bits)), as test_calculate_bits calls them
TargetToBits ==
    /\ pc = "block"
    /\ \E overflow_checks \in BOOLEAN :
         ret' = only({IF target = Panic THEN Panicked
                      ELSE ReturnedBytes(target_to_bits(target)) :
                        target \in {bits_to_target(block_bits, overflow_checks)}})
    /\ pc' = "target_to_bits"
    /\ UNCHANGED <<result, sigstate, operands, chain>>

NextBlock ==
    \/ DecodeBlock
    \/ BlockTarget
    \/ BlockValidate
    \/ TargetToBits

SpecBlock == Init /\ [][NextBlock]_vars

-----------------------------------------------------------------------------
(* Doubling: SECP256K1::double_point, and a Point of curves.rs added to itself *)

\* the points that are doubled: the identity, the pairs with y = 0 (a Point
\* has public fields, and PublicKey::decode returns the pair it reads from
\* uncompressed bytes), and the points of the curve
DoubledPoints ==
    {Identity} \cup {Affine(x, 0) : x \in 0..(BITCOIN.gen.curve.p - 1)} \cup CurvePoints

\* a point to double is at hand
ChooseDoubled ==
    /\ pc = "start"
    /\ \E Q \in DoubledPoints : point' = Q
    /\ pc' = "doubled"
    /\ UNCHANGED <<result, sigstate, chain, compressed, pkb, ret, net, address, field,
                   curveops>>

\* SECP256K1::double_point(point); the identity of secp256k1.rs is (0, 0)
DoublePoint ==
    /\ pc = "doubled"
    /\ ret' = ReturnedRU(double_point(Point(point.x, point.y)))
    /\ pc' = "double_point"
    /\ UNCHANGED <<result, sigstate, chain, operands>>

\* point + point of curves.rs, in a build with or without overflow checks
PointAddSelf ==
    /\ pc = "doubled"
    /\ \E overflow_checks \in BOOLEAN :
         ret' = ReturnedU(Point_add(point, point, BITCOIN.gen.curve, overflow_checks))
    /\ pc' = "point_add_self"
    /\ UNCHANGED <<result, sigstate, chain, operands>>

NextDouble ==
    \/ ChooseDoubled
    \/ DoublePoint
    \/ PointAddSelf

SpecDouble == Init /\ [][NextDouble]_vars

-----------------------------------------------------------------------------
(* utils.rs: read_varint and encode_varint *)

\* the bytes of a u16, a u32 and a u64
U16Bytes == 2
U32Bytes == 4
U64Bytes == 8

\* the first byte of a varint that announces a u16, a u32, a u64: 0xFD,
\* 0xFE, 0xFF, the three highest bytes
MarkerU16 == ByteModulus - 3
MarkerU32 == ByteModulus - 2
MarkerU64 == ByteModulus - 1

\* to_le_bytes of an integer of len bytes
to_le_bytes(v, len) == [i \in 1..len |-> (v \div ByteModulus^(i - 1)) % ByteModulus]

RECURSIVE from_le_bytes(_)
\* from_le_bytes
from_le_bytes(b) ==
    IF b = <<>> THEN 0 ELSE Head(b) + ByteModulus * from_le_bytes(Tail(b))

\* encode_varint
encode_varint(value) == to_le_bytes(value, U64Bytes)

\* an io::Result: Ok(v) with the reader at pos, or Err (UnexpectedEof)
Ok(v, pos) == [status |-> "ok", v |-> v, pos |-> pos]
Err(pos) == [status |-> "err", pos |-> pos]

\* reader.read_exact of len bytes, and from_le_bytes of them, for a reader
\* over s at pos
read_le(s, pos, len) ==
    IF pos + len > Len(s) THEN Err(pos)
    ELSE Ok(from_le_bytes(SubSeq(s, pos + 1, pos + len)), pos + len)

\* read_varint, for a reader over s at pos
read_varint(s, pos) ==
    IF pos + 1 > Len(s) THEN Err(pos)
    ELSE LET n == s[pos + 1]
         IN  IF n = MarkerU16 THEN read_le(s, pos + 1, U16Bytes)
             ELSE IF n = MarkerU32 THEN read_le(s, pos + 1, U32Bytes)
             ELSE IF n = MarkerU64 THEN read_le(s, pos + 1, U64Bytes)
             ELSE Ok(n, pos + 1)

\* the counts the model writes: all of up to two bytes, and the ends of the
\* ranges of a u32 and of a u64
VarintValues ==
    0..(ByteModulus^U16Bytes - 1)
      \cup {ByteModulus^U16Bytes, ByteModulus^U32Bytes - 1, ByteModulus^U32Bytes,
            ByteModulus^U64Bytes - 1}

\* what follows the count in the bytes of a script: nothing, or a command
FollowingFields == {<<>>, <<1, 2>>, <<2, 1, 1>>}

\* Script::encode, Tx::encode: the count is written with encode_varint and
\* the next field follows; a reader is opened on the bytes
EncodeVarint ==
    /\ pc = "start"
    /\ \E value \in VarintValues, next \in FollowingFields :
         /\ varint' = value
         /\ stream' = encode_varint(value) \o next
    /\ position' = 0
    /\ pc' = "encoded"
    /\ UNCHANGED <<result, sigstate, calc, keygen, block, txdb, input, scripting>>

\* Script::decode, Tx::decode: read_varint reads the count.  After an Err
\* the position of the reader is where read_exact left it: where the call
\* found it, or at the end of the bytes
ReadVarint ==
    /\ pc = "encoded"
    /\ ret' = only({IF r.status = "ok" THEN Returned(r.v) ELSE [status |-> "err"] :
                      r \in {read_varint(stream, position)}})
    /\ \E at_end \in BOOLEAN :
         position' = only({IF r.status = "ok" THEN r.pos
                           ELSE IF at_end THEN Len(stream) ELSE r.pos :
                             r \in {read_varint(stream, position)}})
    /\ pc' = "read_varint"
    /\ UNCHANGED <<result, sigstate, operands, keygen, block, varint, stream, txdb, input, scripting>>

NextVarint ==
    \/ EncodeVarint
    \/ ReadVarint

SpecVarint == Init /\ [][NextVarint]_vars

-----------------------------------------------------------------------------
(* transaction.rs: Script, TxIn, TxOut, Tx and TxFetcher *)

\* the bytes of the ID of the previous transaction in a TxIn, scaled from 32
PrevTxBytes == 1

\* reader.read_exact of len bytes
read_exact(s, pos, len) ==
    IF pos + len > Len(s) THEN Err(pos)
    ELSE Ok(SubSeq(s, pos + 1, pos + len), pos + len)

\* read_u8, read_u32, read_u64
read_u8(s, pos) == read_le(s, pos, 1)
read_u32(s, pos) == read_le(s, pos, U32Bytes)
read_u64(s, pos) == read_le(s, pos, U64Bytes)

RECURSIVE Script_decode_cmds(_, _, _, _)
\* the loop of Script::decode: length more commands, each a length byte and
\* that many bytes; unwrap panics at the end of the bytes
Script_decode_cmds(s, pos, length, cmds) ==
    IF length = 0 THEN Ok(cmds, pos)
    ELSE
        only({IF cmd_length.status # "ok" THEN Panicked
              ELSE
                  only({IF cmd.status # "ok" THEN Panicked
                        ELSE
                            Script_decode_cmds(s, cmd.pos, length - 1, Append(cmds, cmd.v))
                        : cmd \in {read_exact(s, cmd_length.pos, cmd_length.v)}})
              : cmd_length \in {read_u8(s, pos)}})

\* Script::decode: the commands of the Script, as Ok(cmds, pos)
Script_decode(s, pos) ==
    only({IF length.status # "ok" THEN Panicked
          ELSE
              Script_decode_cmds(s, length.pos, length.v, <<>>)
          : length \in {read_varint(s, pos)}})

RECURSIVE Script_encode_cmds(_)
\* the loop of Script::encode: cmd.len() as u8, then cmd
Script_encode_cmds(cmds) ==
    IF cmds = <<>> THEN <<>>
    ELSE <<Len(Head(cmds)) % ByteModulus>> \o Head(cmds) \o Script_encode_cmds(Tail(cmds))

\* Script::encode
Script_encode(cmds) == encode_varint(Len(cmds)) \o Script_encode_cmds(cmds)

\* TxIn::decode
TxIn_decode(s, pos) ==
    only({IF prev_tx.status # "ok" THEN Panicked
          ELSE
              only({IF prev_index.status # "ok" THEN Panicked
                    ELSE
                        only({IF script_sig.status # "ok" THEN Panicked
                              ELSE
                                  only({IF sequence.status # "ok" THEN Panicked
                                        ELSE
                                            Ok([prev_tx |-> prev_tx.v, prev_index |-> prev_index.v,
                                                script_sig |-> script_sig.v, sequence |-> sequence.v],
                                               sequence.pos)
                                        : sequence \in {read_u32(s, script_sig.pos)}})
                              : script_sig \in {Script_decode(s, prev_index.pos)}})
                    : prev_index \in {read_u32(s, prev_tx.pos)}})
          : prev_tx \in {read_exact(s, pos, PrevTxBytes)}})

\* TxIn::encode
TxIn_encode(tx_in) ==
    tx_in.prev_tx \o to_le_bytes(tx_in.prev_index, U32Bytes)
        \o Script_encode(tx_in.script_sig) \o to_le_bytes(tx_in.sequence, U32Bytes)

\* TxOut::decode
TxOut_decode(s, pos) ==
    only({IF amount.status # "ok" THEN Panicked
          ELSE
              only({IF script_pubkey.status # "ok" THEN Panicked
                    ELSE
                        Ok([amount |-> amount.v, script_pubkey |-> script_pubkey.v],
                           script_pubkey.pos)
                    : script_pubkey \in {Script_decode(s, amount.pos)}})
          : amount \in {read_u64(s, pos)}})

\* TxOut::encode
TxOut_encode(tx_out) ==
    to_le_bytes(tx_out.amount, U64Bytes) \o Script_encode(tx_out.script_pubkey)

RECURSIVE Tx_decode_ins(_, _, _, _)
\* (0..tx_in_count).map(|_| TxIn::decode(s)).collect()
Tx_decode_ins(s, pos, count, tx_ins) ==
    IF count = 0 THEN Ok(tx_ins, pos)
    ELSE
        only({IF tx_in.status # "ok" THEN Panicked
              ELSE
                  Tx_decode_ins(s, tx_in.pos, count - 1, Append(tx_ins, tx_in.v))
              : tx_in \in {TxIn_decode(s, pos)}})

RECURSIVE Tx_decode_outs(_, _, _, _)
\* (0..tx_out_count).map(|_| TxOut::decode(s)).collect()
Tx_decode_outs(s, pos, count, tx_outs) ==
    IF count = 0 THEN Ok(tx_outs, pos)
    ELSE
        only({IF tx_out.status # "ok" THEN Panicked
              ELSE
                  Tx_decode_outs(s, tx_out.pos, count - 1, Append(tx_outs, tx_out.v))
              : tx_out \in {TxOut_decode(s, pos)}})

\* Tx::decode of a cursor at the start of s
Tx_decode(s) ==
    only({IF version.status # "ok" THEN Panicked
          ELSE
              only({IF marker.status # "ok" THEN Panicked
                    ELSE
                        only({IF tx_in_count.status # "ok" THEN Panicked
                              ELSE
                                  only({IF tx_ins.status # "ok" THEN Panicked
                                        ELSE
                                            only({IF tx_out_count.status # "ok" THEN Panicked
                                                  ELSE
                                                      only({IF tx_outs.status # "ok" THEN Panicked
                                                            ELSE
                                                                only({IF locktime.status # "ok" THEN Panicked
                                                                      ELSE
                                                                          Ok([version |-> version.v, tx_ins |-> tx_ins.v, tx_outs |-> tx_outs.v,
        locktime |-> locktime.v, segwit |-> marker.v = 0], locktime.pos)
                                                                      : locktime \in {read_u32(s, tx_outs.pos)}})
                                                            : tx_outs \in {Tx_decode_outs(s, tx_out_count.pos, tx_out_count.v, <<>>)}})
                                                  : tx_out_count \in {read_varint(s, tx_ins.pos)}})
                                        : tx_ins \in {Tx_decode_ins(s, tx_in_count.pos, tx_in_count.v, <<>>)}})
                              : tx_in_count \in {read_varint(s, marker.pos)}})
                    : marker \in {read_u8(s, version.pos)}})
          : version \in {read_u32(s, 0)}})

RECURSIVE Tx_encode_ins(_)
\* the loop over tx_ins of Tx::encode
Tx_encode_ins(tx_ins) ==
    IF tx_ins = <<>> THEN <<>>
    ELSE TxIn_encode(Head(tx_ins)) \o Tx_encode_ins(Tail(tx_ins))

RECURSIVE Tx_encode_outs(_)
\* the loop over tx_outs of Tx::encode
Tx_encode_outs(tx_outs) ==
    IF tx_outs = <<>> THEN <<>>
    ELSE TxOut_encode(Head(tx_outs)) \o Tx_encode_outs(Tail(tx_outs))

\* Tx::encode
Tx_encode(tx, force_legacy) ==
    to_le_bytes(tx.version, U32Bytes)
        \o (IF tx.segwit /\ ~force_legacy THEN <<0>> ELSE <<>>)
        \o encode_varint(Len(tx.tx_ins)) \o Tx_encode_ins(tx.tx_ins)
        \o encode_varint(Len(tx.tx_outs)) \o Tx_encode_outs(tx.tx_outs)
        \o to_le_bytes(tx.locktime, U32Bytes)

RECURSIVE hex_encode(_)
\* hex::encode: two hexadecimal digits for each byte
hex_encode(b) ==
    IF b = <<>> THEN <<>>
    ELSE <<Head(b) \div 16, Head(b) % 16>> \o hex_encode(Tail(b))

\* Tx::id
Tx_id(tx) == only({hex_encode(hash256(encoded)) : encoded \in {Tx_encode(tx, TRUE)}})

\* the bytes of a transaction without inputs and outputs, as Tx::decode
\* reads them: version, one byte, two counts, locktime
RawEmptyTx(version, marker) ==
    to_le_bytes(version, U32Bytes) \o <<marker, 0, 0>> \o to_le_bytes(0, U32Bytes)

\* the bytes of a transaction with one input and one output
RawTx ==
    to_le_bytes(1, U32Bytes) \o <<1>>
        \o <<1>> \o <<3>> \o to_le_bytes(0, U32Bytes) \o <<1, 2, 4, 1>>
                 \o to_le_bytes(7, U32Bytes)
        \o <<1>> \o to_le_bytes(9, U64Bytes) \o <<2, 1, 6, 0>>
        \o to_le_bytes(0, U32Bytes)

\* the bodies the server may send for a name: the bytes of a transaction
\* (of that name or of another), or bytes that end early
Responses ==
    {RawEmptyTx(1, 1), RawEmptyTx(2, 0), RawTx, <<1, 0, 0, 0, 1, 2>>}

\* the names asked for: those of the transactions the server has, after
\* to_lowercase
TxNames == {Tx_id(Tx_decode(raw).v) : raw \in {r \in Responses : Tx_decode(r).status = "ok"}}

\* the net of a fetch
Nets == {"main", "test", "signet"}

\* what fetch does with the raw bytes: Tx::decode, and the assert on id()
fetch_decode(raw, tx_id) ==
    only({IF tx.status # "ok" THEN Panicked
          ELSE IF Tx_id(tx.v) # tx_id THEN Panicked
          ELSE Returned(tx.v) : tx \in {Tx_decode(raw)}})

\* TxFetcher::fetch with the file of the name in txdb: the file is read
FetchCached(tx_id) ==
    /\ pc \in {"start", "fetch"}
    /\ tx_id \in DOMAIN txdb
    /\ ret' = fetch_decode(txdb[tx_id], tx_id)
    /\ pc' = "fetch"
    /\ UNCHANGED <<result, sigstate, operands, chain>>

\* TxFetcher::fetch without the file, where no body is downloaded: the net
\* is neither main nor test, the status is not a success, or the body is
\* not hexadecimal
FetchFailed(tx_id, net_type) ==
    /\ pc \in {"start", "fetch"}
    /\ tx_id \notin DOMAIN txdb
    /\ ret' = Panicked
    /\ pc' = "fetch"
    /\ UNCHANGED <<result, sigstate, operands, chain>>

\* TxFetcher::fetch without the file, where the server sends raw: raw is
\* written to the file, then decoded and its id() compared
FetchDownloaded(tx_id, net_type, raw) ==
    /\ pc \in {"start", "fetch"}
    /\ tx_id \notin DOMAIN txdb
    /\ net_type \in {"main", "test"}
    /\ txdb' = [name \in DOMAIN txdb \cup {tx_id} |->
                  IF name = tx_id THEN raw ELSE txdb[name]]
    /\ ret' = fetch_decode(raw, tx_id)
    /\ pc' = "fetch"
    /\ UNCHANGED <<result, sigstate, operands, keygen, block, reader, input, scripting>>

\* TxFetcher::fetch
Fetch ==
    \E tx_id \in TxNames, net_type \in Nets :
        \/ FetchCached(tx_id)
        \/ FetchFailed(tx_id, net_type)
        \/ \E raw \in Responses : FetchDownloaded(tx_id, net_type, raw)

NextFetch == Fetch

SpecFetch == Init /\ [][NextFetch]_vars

-----------------------------------------------------------------------------
(* sha256.rs *)

(***************************************************************************)
(* A u32 is the pair <<hi, lo>> of its two halves of 16 bits, so that no   *)
(* intermediate value leaves the integers of TLC.  Bytes have 8 bits here. *)
(***************************************************************************)

\* 2^16
HalfModulus == 65536

\* K
K ==
    <<<<17034, 12184>>, <<28983, 17553>>, <<46528, 64463>>, <<59829, 56229>>,
    <<14678, 49755>>, <<23025, 4593>>, <<37439, 33444>>, <<43804, 24277>>,
    <<55303, 43672>>, <<4739, 23297>>, <<9265, 34238>>, <<21772, 32195>>,
    <<29374, 23924>>, <<32990, 45566>>, <<39900, 1703>>, <<49563, 61812>>,
    <<58523, 27073>>, <<61374, 18310>>, <<4033, 40390>>, <<9228, 41420>>,
    <<11753, 11375>>, <<19060, 33962>>, <<23728, 43484>>, <<30457, 35034>>,
    <<38974, 20818>>, <<43057, 50797>>, <<45059, 10184>>, <<48985, 32711>>,
    <<50912, 3059>>, <<54695, 37191>>, <<1738, 25425>>, <<5161, 10599>>,
    <<10167, 2693>>, <<11803, 8504>>, <<19756, 28156>>, <<21304, 3347>>,
    <<25866, 29524>>, <<30314, 2747>>, <<33218, 51502>>, <<37490, 11397>>,
    <<41663, 59553>>, <<43034, 26187>>, <<49739, 35696>>, <<51052, 20899>>,
    <<53650, 59417>>, <<54937, 1572>>, <<62478, 13701>>, <<4202, 41072>>,
    <<6564, 49430>>, <<7735, 27656>>, <<10056, 30540>>, <<13488, 48309>>,
    <<14620, 3251>>, <<20184, 43594>>, <<23452, 51791>>, <<26670, 28659>>,
    <<29839, 33518>>, <<30885, 25455>>, <<33992, 30740>>, <<36039, 520>>,
    <<37054, 65530>>, <<42064, 27883>>, <<48889, 41975>>, <<50801, 30962>>>>

\* H0
H0 ==
    <<<<27145, 58983>>, <<47975, 44677>>, <<15470, 62322>>, <<42319, 62778>>,
    <<20750, 21119>>, <<39685, 26764>>, <<8067, 55723>>, <<23520, 52505>>>>

RECURSIVE xor_half(_, _, _)
\* ^ on the bits i .. 15 of two halves
xor_half(a, b, i) ==
    IF i = 16 THEN 0
    ELSE ((((a \div 2^i) + (b \div 2^i)) % 2) * 2^i) + xor_half(a, b, i + 1)

RECURSIVE and_half(_, _, _)
\* & on the bits i .. 15 of two halves
and_half(a, b, i) ==
    IF i = 16 THEN 0
    ELSE ((((a \div 2^i) % 2) * ((b \div 2^i) % 2)) * 2^i) + and_half(a, b, i + 1)

\* ^ of two u32
xor(x, y) ==
    only({<<xor_half(a[1], b[1], 0), xor_half(a[2], b[2], 0)>> : a \in {x}, b \in {y}})

\* & of two u32
and(x, y) ==
    only({<<and_half(a[1], b[1], 0), and_half(a[2], b[2], 0)>> : a \in {x}, b \in {y}})

\* | of two u32: x | y = (x ^ y) + (x & y), a sum without carries
or(x, y) ==
    only({<<xor_half(a[1], b[1], 0) + and_half(a[1], b[1], 0),
            xor_half(a[2], b[2], 0) + and_half(a[2], b[2], 0)>> : a \in {x}, b \in {y}})

\* ! of a u32
not(x) == only({<<HalfModulus - 1 - a[1], HalfModulus - 1 - a[2]>> : a \in {x}})

\* x >> n, for 0 < n < 32
shr(x, n) ==
    only({IF n < 16
          THEN <<a[1] \div 2^n, (a[2] \div 2^n) + ((a[1] % 2^n) * 2^(16 - n))>>
          ELSE <<0, a[1] \div 2^(n - 16)>> : a \in {x}})

\* x << n, for 0 < n < 32: the bits that leave the u32 are lost
shl(x, n) ==
    only({IF n < 16
          THEN <<((a[1] * 2^n) % HalfModulus) + (a[2] \div 2^(16 - n)), (a[2] * 2^n) % HalfModulus>>
          ELSE <<(a[2] * 2^(n - 16)) % HalfModulus, 0>> : a \in {x}})

\* wrapping_add
wrapping_add(x, y) ==
    only({<<(a[1] + b[1] + (a[2] + b[2]) \div HalfModulus) % HalfModulus,
            (a[2] + b[2]) % HalfModulus>> : a \in {x}, b \in {y}})

\* rotr with the two shifts the same way: (x >> n) | (x >> (32 - n))
rotr_right_twice(x, n) == or(shr(x, n), shr(x, 32 - n))

\* rotr
rotr(x, n) == or(shr(x, n), shl(x, 32 - n))

sig0(x) == only({xor(xor(rotr(a, 7), rotr(a, 18)), shr(a, 3)) : a \in {x}})

sig1(x) == only({xor(xor(rotr(a, 17), rotr(a, 19)), shr(a, 10)) : a \in {x}})

capsig0(x) == only({xor(xor(rotr(a, 2), rotr(a, 13)), rotr(a, 22)) : a \in {x}})

capsig1(x) == only({xor(xor(rotr(a, 6), rotr(a, 11)), rotr(a, 25)) : a \in {x}})

ch(x, y, z) == xor(and(x, y), and(not(x), z))

maj(x, y, z) == xor(xor(and(x, y), and(x, z)), and(y, z))

\* l.to_be_bytes() of a u64; the lengths of the model are below 2^31
u64_to_be_bytes(l) ==
    <<0, 0, 0, 0>> \o <<l \div 256^3, (l \div 256^2) % 256, (l \div 256) % 256, l % 256>>

\* pad: the while loop pushes zeros until the length in bits is 448 mod 512
pad(b) ==
    LET l == Len(b) * 8
        zeros == CHOOSE k \in 0..63 :
                    /\ ((Len(b) + 1 + k) * 8) % 512 = 448
                    /\ \A j \in 0..(k - 1) : ((Len(b) + 1 + j) * 8) % 512 # 448
    IN  b \o <<128>> \o [j \in 1..zeros |-> 0] \o u64_to_be_bytes(l)

\* u32::from_be_bytes of the bytes 4t .. 4t + 3 of a chunk, t from 0
chunk_word(chunk, t) ==
    <<(chunk[4 * t + 1] * 256) + chunk[4 * t + 2], (chunk[4 * t + 3] * 256) + chunk[4 * t + 4]>>

\* x.to_be_bytes() of a u32
u32_to_be_bytes(x) == <<x[1] \div 256, x[1] % 256, x[2] \div 256, x[2] % 256>>

\* one iteration of the two loops that fill w: w[t], t from 0, is appended
schedule_step(w, chunk, t) ==
    Append(w, IF t < 16 THEN chunk_word(chunk, t)
              ELSE wrapping_add(wrapping_add(wrapping_add(sig1(w[t - 2 + 1]), w[t - 7 + 1]),
                                             sig0(w[t - 15 + 1])),
                                w[t - 16 + 1]))

RECURSIVE schedule_loop(_, _, _, _)
\* the iterations from .. to of the loops that fill w
schedule_loop(w, chunk, from, to) ==
    IF from = to THEN schedule_step(w, chunk, from)
    ELSE only({schedule_loop(half, chunk, (from + to) \div 2 + 1, to) :
                 half \in {schedule_loop(w, chunk, from, (from + to) \div 2)}})

\* one iteration of the loop over the 64 rounds; v is <<a, b, c, d, e, f, g, h7>>
round(v, w, t) ==
    only({<<wrapping_add(t1, t2), v[1], v[2], v[3], wrapping_add(v[4], t1), v[5], v[6], v[7]>> :
            t1 \in {wrapping_add(wrapping_add(wrapping_add(wrapping_add(v[8], capsig1(v[5])),
                                                           ch(v[5], v[6], v[7])),
                                              K[t + 1]),
                                 w[t + 1])},
            t2 \in {wrapping_add(capsig0(v[1]), maj(v[1], v[2], v[3]))}})

RECURSIVE rounds(_, _, _, _)
\* the rounds from .. to
rounds(v, w, from, to) ==
    IF from = to THEN round(v, w, from)
    ELSE only({rounds(half, w, (from + to) \div 2 + 1, to) :
                 half \in {rounds(v, w, from, (from + to) \div 2)}})

\* the body of the loop over the chunks: h after the chunk
compress(h, chunk) ==
    only({[i \in 1..8 |-> wrapping_add(h[i], v[i])] \o <<>> :
            v \in {only({rounds(h, w, 0, 63) : w \in {schedule_loop(<<>>, chunk, 0, 63)}})}})

RECURSIVE sha256_chunks(_, _, _)
\* the loop over b.chunks(64), from the chunk i, from 0
sha256_chunks(h, b, i) ==
    IF 64 * i >= Len(b) THEN h
    ELSE only({sha256_chunks(after, b, i + 1) :
                 after \in {compress(h, SubSeq(b, 64 * i + 1, 64 * i + 64))}})

\* sha256
sha256(b) ==
    only({u32_to_be_bytes(h[1]) \o u32_to_be_bytes(h[2]) \o u32_to_be_bytes(h[3])
              \o u32_to_be_bytes(h[4]) \o u32_to_be_bytes(h[5]) \o u32_to_be_bytes(h[6])
              \o u32_to_be_bytes(h[7]) \o u32_to_be_bytes(h[8]) :
            h \in {only({sha256_chunks(H0, padded, 0) : padded \in {pad(b)}})}})

\* hash256 of sha256.rs, which the rest of the model abstracts to hash256
double_sha256(data) == only({sha256(first) : first \in {sha256(data)}})

\* the inputs of the model with their digests by a reference SHA-256: the
\* empty input, inputs of one block and of several, the lengths around the
\* end of a block
ShaVectors ==
    <<      [input |-> <<>>,
       sha256 |-> <<227, 176, 196, 66, 152, 252, 28, 20, 154, 251, 244, 200, 153, 111, 185, 36,
                  39, 174, 65, 228, 100, 155, 147, 76, 164, 149, 153, 27, 120, 82, 184, 85>>,
       hash256 |-> <<93, 246, 224, 226, 118, 19, 89, 211, 10, 130, 117, 5, 142, 41, 159, 204,
                   3, 129, 83, 69, 69, 245, 92, 244, 62, 65, 152, 63, 93, 76, 148, 86>>],
      [input |-> <<97>>,
       sha256 |-> <<202, 151, 129, 18, 202, 27, 189, 202, 250, 194, 49, 179, 154, 35, 220, 77,
                  167, 134, 239, 248, 20, 124, 78, 114, 185, 128, 119, 133, 175, 238, 72, 187>>,
       hash256 |-> <<191, 93, 58, 255, 183, 62, 253, 46, 198, 195, 106, 211, 17, 45, 217, 51,
                   239, 237, 99, 196, 225, 203, 255, 207, 168, 142, 39, 89, 193, 68, 242, 216>>],
      [input |-> <<97, 98, 99>>,
       sha256 |-> <<186, 120, 22, 191, 143, 1, 207, 234, 65, 65, 64, 222, 93, 174, 34, 35,
                  176, 3, 97, 163, 150, 23, 122, 156, 180, 16, 255, 97, 242, 0, 21, 173>>,
       hash256 |-> <<79, 139, 66, 194, 45, 211, 114, 155, 81, 155, 166, 246, 141, 45, 167, 204,
                   91, 45, 96, 109, 5, 218, 237, 90, 213, 18, 140, 192, 62, 108, 99, 88>>],
      [input |-> <<104, 101, 108, 108, 111>>,
       sha256 |-> <<44, 242, 77, 186, 95, 176, 163, 14, 38, 232, 59, 42, 197, 185, 226, 158,
                  27, 22, 30, 92, 31, 167, 66, 94, 115, 4, 51, 98, 147, 139, 152, 36>>,
       hash256 |-> <<149, 149, 201, 223, 144, 7, 81, 72, 235, 6, 134, 3, 101, 223, 51, 88,
                   75, 117, 191, 247, 130, 165, 16, 198, 205, 72, 131, 164, 25, 131, 61, 80>>],
      [input |-> <<84, 104, 101, 32, 113, 117, 105, 99, 107, 32, 98, 114, 111, 119, 110, 32,
                 102, 111, 120, 32, 106, 117, 109, 112, 115, 32, 111, 118, 101, 114, 32, 116,
                 104, 101, 32, 108, 97, 122, 121, 32, 100, 111, 103>>,
       sha256 |-> <<215, 168, 251, 179, 7, 215, 128, 148, 105, 202, 154, 188, 176, 8, 46, 79,
                  141, 86, 81, 228, 109, 60, 219, 118, 45, 2, 208, 191, 55, 201, 229, 146>>,
       hash256 |-> <<109, 55, 121, 80, 33, 229, 68, 216, 43, 65, 133, 14, 223, 122, 171, 171,
                   154, 14, 190, 39, 78, 84, 165, 25, 132, 12, 70, 102, 243, 91, 57, 55>>],
      [input |-> <<97, 98, 99, 100, 98, 99, 100, 101, 99, 100, 101, 102, 100, 101, 102, 103,
                 101, 102, 103, 104, 102, 103, 104, 105, 103, 104, 105, 106, 104, 105, 106, 107,
                 105, 106, 107, 108, 106, 107, 108, 109, 107, 108, 109, 110, 108, 109, 110, 111,
                 109, 110, 111, 112, 110, 111, 112, 113>>,
       sha256 |-> <<36, 141, 106, 97, 210, 6, 56, 184, 229, 192, 38, 147, 12, 62, 96, 57,
                  163, 60, 228, 89, 100, 255, 33, 103, 246, 236, 237, 212, 25, 219, 6, 193>>,
       hash256 |-> <<12, 255, 225, 127, 104, 149, 77, 172, 58, 132, 251, 20, 88, 189, 94, 201,
                   146, 9, 68, 151, 73, 178, 179, 8, 183, 203, 85, 129, 47, 149, 99, 175>>],
      [input |-> <<97, 97, 97, 97, 97, 97, 97, 97, 97, 97, 97, 97, 97, 97, 97, 97,
                 97, 97, 97, 97, 97, 97, 97, 97, 97, 97, 97, 97, 97, 97, 97, 97,
                 97, 97, 97, 97, 97, 97, 97, 97, 97, 97, 97, 97, 97, 97, 97, 97,
                 97, 97, 97, 97, 97, 97, 97>>,
       sha256 |-> <<159, 67, 144, 248, 211, 12, 45, 217, 46, 201, 240, 149, 182, 94, 43, 154,
                  233, 176, 169, 37, 165, 37, 142, 36, 28, 159, 30, 145, 15, 115, 67, 24>>,
       hash256 |-> <<86, 109, 187, 127, 15, 18, 148, 130, 212, 73, 183, 164, 185, 113, 177, 48,
                   47, 19, 161, 165, 225, 250, 238, 144, 74, 10, 39, 11, 43, 111, 90, 125>>],
      [input |-> <<97, 97, 97, 97, 97, 97, 97, 97, 97, 97, 97, 97, 97, 97, 97, 97,
                 97, 97, 97, 97, 97, 97, 97, 97, 97, 97, 97, 97, 97, 97, 97, 97,
                 97, 97, 97, 97, 97, 97, 97, 97, 97, 97, 97, 97, 97, 97, 97, 97,
                 97, 97, 97, 97, 97, 97, 97, 97>>,
       sha256 |-> <<179, 84, 57, 164, 172, 111, 9, 72, 182, 214, 249, 227, 198, 175, 15, 95,
                  89, 12, 226, 15, 27, 222, 112, 144, 239, 121, 112, 104, 110, 198, 115, 138>>,
       hash256 |-> <<18, 44, 240, 250, 143, 129, 218, 225, 72, 66, 73, 30, 237, 234, 178, 99,
                   116, 55, 5, 20, 246, 196, 65, 59, 204, 50, 53, 42, 229, 134, 179, 158>>],
      [input |-> <<97, 97, 97, 97, 97, 97, 97, 97, 97, 97, 97, 97, 97, 97, 97, 97,
                 97, 97, 97, 97, 97, 97, 97, 97, 97, 97, 97, 97, 97, 97, 97, 97,
                 97, 97, 97, 97, 97, 97, 97, 97, 97, 97, 97, 97, 97, 97, 97, 97,
                 97, 97, 97, 97, 97, 97, 97, 97, 97>>,
       sha256 |-> <<241, 59, 45, 114, 70, 89, 235, 59, 244, 127, 45, 214, 175, 26, 204, 200,
                  123, 129, 240, 159, 89, 242, 183, 94, 92, 11, 237, 101, 137, 223, 232, 198>>,
       hash256 |-> <<150, 76, 60, 125, 109, 156, 229, 138, 22, 13, 12, 49, 134, 169, 108, 133,
                   144, 70, 155, 148, 47, 160, 192, 196, 133, 214, 254, 213, 90, 109, 147, 67>>],
      [input |-> <<97, 97, 97, 97, 97, 97, 97, 97, 97, 97, 97, 97, 97, 97, 97, 97,
                 97, 97, 97, 97, 97, 97, 97, 97, 97, 97, 97, 97, 97, 97, 97, 97,
                 97, 97, 97, 97, 97, 97, 97, 97, 97, 97, 97, 97, 97, 97, 97, 97,
                 97, 97, 97, 97, 97, 97, 97, 97, 97, 97, 97, 97, 97, 97, 97>>,
       sha256 |-> <<125, 62, 116, 160, 93, 125, 177, 91, 206, 74, 217, 236, 6, 88, 234, 152,
                  227, 240, 110, 238, 207, 22, 180, 198, 255, 242, 218, 69, 125, 220, 47, 52>>,
       hash256 |-> <<84, 245, 126, 139, 125, 14, 208, 14, 68, 47, 172, 243, 109, 250, 149, 206,
                   110, 181, 223, 57, 27, 183, 177, 152, 164, 163, 199, 40, 184, 186, 110, 118>>],
      [input |-> <<97, 97, 97, 97, 97, 97, 97, 97, 97, 97, 97, 97, 97, 97, 97, 97,
                 97, 97, 97, 97, 97, 97, 97, 97, 97, 97, 97, 97, 97, 97, 97, 97,
                 97, 97, 97, 97, 97, 97, 97, 97, 97, 97, 97, 97, 97, 97, 97, 97,
                 97, 97, 97, 97, 97, 97, 97, 97, 97, 97, 97, 97, 97, 97, 97, 97>>,
       sha256 |-> <<255, 224, 84, 254, 122, 224, 203, 109, 198, 92, 58, 249, 182, 29, 82, 9,
                  244, 57, 133, 29, 180, 61, 11, 165, 153, 115, 55, 223, 21, 70, 104, 235>>,
       hash256 |-> <<100, 210, 132, 36, 114, 90, 111, 33, 158, 251, 23, 214, 248, 228, 3, 103,
                   25, 191, 158, 26, 142, 194, 56, 140, 34, 207, 181, 252, 65, 45, 70, 188>>],
      [input |-> <<97, 97, 97, 97, 97, 97, 97, 97, 97, 97, 97, 97, 97, 97, 97, 97,
                 97, 97, 97, 97, 97, 97, 97, 97, 97, 97, 97, 97, 97, 97, 97, 97,
                 97, 97, 97, 97, 97, 97, 97, 97, 97, 97, 97, 97, 97, 97, 97, 97,
                 97, 97, 97, 97, 97, 97, 97, 97, 97, 97, 97, 97, 97, 97, 97, 97,
                 97>>,
       sha256 |-> <<99, 83, 97, 196, 139, 185, 234, 177, 65, 152, 231, 110, 168, 171, 127, 26,
                  65, 104, 93, 106, 214, 42, 169, 20, 109, 48, 29, 79, 23, 235, 10, 224>>,
       hash256 |-> <<251, 24, 62, 182, 158, 194, 107, 148, 219, 198, 174, 158, 228, 104, 226, 98,
                   55, 207, 0, 106, 178, 56, 35, 233, 213, 139, 129, 131, 151, 236, 113, 147>>],
      [input |-> <<97, 97, 97, 97, 97, 97, 97, 97, 97, 97, 97, 97, 97, 97, 97, 97,
                 97, 97, 97, 97, 97, 97, 97, 97, 97, 97, 97, 97, 97, 97, 97, 97,
                 97, 97, 97, 97, 97, 97, 97, 97, 97, 97, 97, 97, 97, 97, 97, 97,
                 97, 97, 97, 97, 97, 97, 97, 97, 97, 97, 97, 97, 97, 97, 97, 97,
                 97, 97, 97, 97, 97, 97, 97, 97, 97, 97, 97, 97, 97, 97, 97, 97,
                 97, 97, 97, 97, 97, 97, 97, 97, 97, 97, 97, 97, 97, 97, 97, 97,
                 97, 97, 97, 97, 97, 97, 97, 97, 97, 97, 97, 97, 97, 97, 97, 97,
                 97, 97, 97, 97, 97, 97, 97>>,
       sha256 |-> <<49, 235, 165, 28, 49, 58, 92, 8, 34, 106, 223, 24, 212, 163, 89, 207,
                  223, 216, 210, 232, 22, 177, 63, 74, 249, 82, 247, 234, 101, 132, 220, 251>>,
       hash256 |-> <<58, 230, 162, 236, 248, 143, 135, 210, 186, 56, 34, 12, 114, 8, 213, 133,
                   89, 218, 247, 170, 239, 122, 168, 0, 236, 17, 142, 172, 128, 85, 103, 198>>],
      [input |-> <<97, 97, 97, 97, 97, 97, 97, 97, 97, 97, 97, 97, 97, 97, 97, 97,
                 97, 97, 97, 97, 97, 97, 97, 97, 97, 97, 97, 97, 97, 97, 97, 97,
                 97, 97, 97, 97, 97, 97, 97, 97, 97, 97, 97, 97, 97, 97, 97, 97,
                 97, 97, 97, 97, 97, 97, 97, 97, 97, 97, 97, 97, 97, 97, 97, 97,
                 97, 97, 97, 97, 97, 97, 97, 97, 97, 97, 97, 97, 97, 97, 97, 97,
                 97, 97, 97, 97, 97, 97, 97, 97, 97, 97, 97, 97, 97, 97, 97, 97,
                 97, 97, 97, 97, 97, 97, 97, 97, 97, 97, 97, 97, 97, 97, 97, 97,
                 97, 97, 97, 97, 97, 97, 97, 97>>,
       sha256 |-> <<47, 61, 51, 84, 50, 199, 11, 88, 10, 240, 232, 225, 179, 103, 74, 124,
                  2, 13, 104, 58, 165, 247, 58, 170, 237, 253, 197, 90, 249, 4, 194, 28>>,
       hash256 |-> <<9, 167, 18, 172, 35, 71, 181, 214, 19, 249, 243, 173, 129, 164, 101, 151,
                   149, 168, 195, 48, 112, 52, 107, 230, 137, 20, 23, 160, 147, 32, 146, 228>>],
      [input |-> <<97, 97, 97, 97, 97, 97, 97, 97, 97, 97, 97, 97, 97, 97, 97, 97,
                 97, 97, 97, 97, 97, 97, 97, 97, 97, 97, 97, 97, 97, 97, 97, 97,
                 97, 97, 97, 97, 97, 97, 97, 97, 97, 97, 97, 97, 97, 97, 97, 97,
                 97, 97, 97, 97, 97, 97, 97, 97, 97, 97, 97, 97, 97, 97, 97, 97,
                 97, 97, 97, 97, 97, 97, 97, 97, 97, 97, 97, 97, 97, 97, 97, 97,
                 97, 97, 97, 97, 97, 97, 97, 97, 97, 97, 97, 97, 97, 97, 97, 97,
                 97, 97, 97, 97, 97, 97, 97, 97, 97, 97, 97, 97, 97, 97, 97, 97,
                 97, 97, 97, 97, 97, 97, 97, 97, 97, 97, 97, 97, 97, 97, 97, 97>>,
       sha256 |-> <<104, 54, 207, 19, 186, 196, 0, 233, 16, 80, 113, 205, 106, 244, 112, 132,
                  223, 172, 173, 78, 94, 48, 44, 148, 191, 237, 36, 224, 19, 175, 183, 62>>,
       hash256 |-> <<15, 180, 186, 148, 236, 246, 244, 15, 49, 117, 127, 171, 159, 121, 110, 38,
                   89, 93, 69, 240, 225, 67, 183, 233, 126, 55, 103, 99, 3, 29, 169, 48>>],
      [input |-> <<97, 97, 97, 97, 97, 97, 97, 97, 97, 97, 97, 97, 97, 97, 97, 97,
                 97, 97, 97, 97, 97, 97, 97, 97, 97, 97, 97, 97, 97, 97, 97, 97,
                 97, 97, 97, 97, 97, 97, 97, 97, 97, 97, 97, 97, 97, 97, 97, 97,
                 97, 97, 97, 97, 97, 97, 97, 97, 97, 97, 97, 97, 97, 97, 97, 97,
                 97, 97, 97, 97, 97, 97, 97, 97, 97, 97, 97, 97, 97, 97, 97, 97,
                 97, 97, 97, 97, 97, 97, 97, 97, 97, 97, 97, 97, 97, 97, 97, 97,
                 97, 97, 97, 97, 97, 97, 97, 97, 97, 97, 97, 97, 97, 97, 97, 97,
                 97, 97, 97, 97, 97, 97, 97, 97, 97, 97, 97, 97, 97, 97, 97, 97,
                 97, 97>>,
       sha256 |-> <<30, 60, 79, 71, 80, 200, 194, 155, 191, 169, 206, 211, 23, 120, 129, 118,
                  177, 86, 211, 66, 229, 127, 119, 119, 246, 47, 215, 34, 26, 68, 49, 47>>,
       hash256 |-> <<22, 58, 121, 182, 90, 241, 220, 208, 101, 112, 102, 223, 128, 209, 245, 87,
                   94, 164, 26, 57, 136, 81, 59, 34, 27, 174, 122, 202, 43, 187, 215, 244>>],
      [input |-> <<0>>,
       sha256 |-> <<110, 52, 11, 156, 255, 179, 122, 152, 156, 165, 68, 230, 187, 120, 10, 44,
                  120, 144, 29, 63, 179, 55, 56, 118, 133, 17, 163, 6, 23, 175, 160, 29>>,
       hash256 |-> <<20, 6, 224, 88, 129, 226, 153, 54, 119, 102, 211, 19, 226, 108, 5, 86,
                   78, 201, 27, 247, 33, 211, 23, 38, 189, 110, 70, 230, 6, 137, 83, 154>>],
      [input |-> <<1>>,
       sha256 |-> <<75, 245, 18, 47, 52, 69, 84, 197, 59, 222, 46, 187, 140, 210, 183, 227,
                  209, 96, 10, 214, 49, 195, 133, 165, 215, 204, 226, 60, 119, 133, 69, 154>>,
       hash256 |-> <<156, 18, 207, 220, 4, 199, 69, 132, 215, 135, 172, 61, 35, 119, 33, 50,
                   193, 133, 36, 188, 122, 178, 141, 236, 66, 25, 184, 252, 91, 66, 95, 112>>],
      [input |-> <<2>>,
       sha256 |-> <<219, 193, 180, 201, 0, 255, 228, 141, 87, 91, 93, 165, 198, 56, 4, 1,
                  37, 246, 93, 176, 254, 62, 36, 73, 75, 118, 234, 152, 100, 87, 217, 134>>,
       hash256 |-> <<28, 195, 173, 234, 64, 235, 253, 148, 67, 58, 192, 4, 119, 125, 104, 21,
                   12, 206, 157, 180, 199, 113, 188, 125, 225, 178, 151, 167, 183, 149, 187, 186>>],
      [input |-> <<64>>,
       sha256 |-> <<195, 100, 31, 133, 68, 215, 192, 47, 53, 128, 176, 124, 15, 152, 135, 240,
                  198, 162, 127, 245, 171, 29, 74, 62, 41, 202, 241, 151, 207, 194, 153, 174>>,
       hash256 |-> <<127, 136, 175, 17, 115, 19, 77, 155, 44, 203, 210, 228, 166, 69, 34, 53,
                   122, 25, 220, 25, 239, 152, 194, 171, 179, 33, 127, 201, 62, 112, 214, 204>>],
      [input |-> <<127>>,
       sha256 |-> <<98, 11, 253, 170, 52, 107, 8, 143, 180, 153, 152, 217, 47, 25, 167, 234,
                  246, 191, 194, 251, 10, 238, 1, 87, 83, 150, 109, 161, 2, 140, 183, 49>>,
       hash256 |-> <<113, 203, 201, 171, 35, 254, 110, 128, 71, 251, 251, 176, 247, 226, 146, 223,
                   81, 192, 51, 6, 63, 215, 13, 5, 16, 19, 247, 110, 14, 114, 85, 93>>],
      [input |-> <<128>>,
       sha256 |-> <<118, 190, 139, 82, 141, 0, 117, 247, 170, 233, 141, 111, 165, 122, 109, 60,
                  131, 174, 72, 10, 132, 105, 230, 104, 215, 176, 175, 150, 137, 149, 172, 113>>,
       hash256 |-> <<201, 64, 57, 120, 222, 165, 131, 198, 49, 129, 104, 47, 66, 87, 1, 119,
                   138, 218, 19, 16, 174, 131, 20, 15, 236, 8, 233, 94, 251, 249, 245, 35>>],
      [input |-> <<129>>,
       sha256 |-> <<89, 27, 124, 201, 80, 55, 130, 45, 236, 90, 77, 89, 58, 46, 46, 139,
                  25, 192, 125, 221, 37, 112, 229, 105, 144, 3, 209, 127, 20, 196, 64, 166>>,
       hash256 |-> <<72, 119, 81, 49, 144, 193, 91, 29, 22, 185, 226, 99, 24, 167, 144, 35,
                   221, 226, 173, 137, 78, 196, 253, 8, 153, 39, 112, 179, 210, 4, 34, 123>>],
      [input |-> <<254>>,
       sha256 |-> <<170, 104, 123, 88, 176, 231, 62, 46, 56, 63, 140, 80, 13, 117, 181, 145,
                  225, 136, 239, 224, 22, 139, 63, 251, 205, 55, 113, 202, 170, 109, 212, 199>>,
       hash256 |-> <<73, 229, 46, 196, 189, 107, 26, 151, 83, 22, 124, 79, 21, 50, 113, 197,
                   114, 249, 101, 236, 76, 87, 77, 171, 90, 23, 11, 140, 54, 247, 12, 198>>],
      [input |-> <<255>>,
       sha256 |-> <<168, 16, 10, 230, 170, 25, 64, 208, 182, 99, 187, 49, 205, 70, 97, 66,
                  235, 189, 189, 81, 135, 19, 27, 146, 217, 56, 24, 152, 120, 50, 235, 137>>,
       hash256 |-> <<192, 176, 87, 245, 132, 121, 94, 255, 139, 6, 213, 228, 32, 231, 29, 116,
                   117, 135, 210, 13, 232, 54, 245, 1, 146, 31, 209, 181, 116, 31, 18, 131>>],
      [input |-> <<0, 0>>,
       sha256 |-> <<150, 162, 150, 210, 36, 242, 133, 198, 123, 238, 147, 195, 15, 138, 48, 145,
                  87, 240, 218, 163, 93, 197, 184, 126, 65, 11, 120, 99, 10, 9, 207, 199>>,
       hash256 |-> <<64, 127, 235, 74, 75, 131, 3, 186, 244, 248, 78, 41, 162, 9, 224, 220,
                   253, 98, 232, 31, 136, 200, 237, 183, 103, 92, 90, 149, 217, 14, 92, 144>>],
      [input |-> <<0, 128>>,
       sha256 |-> <<8, 94, 218, 212, 0, 120, 95, 202, 126, 126, 144, 177, 250, 196, 190, 183,
                  118, 252, 43, 238, 229, 170, 36, 53, 45, 95, 57, 181, 213, 126, 252, 173>>,
       hash256 |-> <<184, 114, 127, 154, 170, 41, 203, 235, 171, 162, 99, 96, 219, 103, 152, 24,
                   235, 188, 203, 64, 226, 4, 83, 225, 118, 148, 230, 182, 186, 46, 241, 23>>],
      [input |-> <<0, 255>>,
       sha256 |-> <<6, 235, 125, 106, 105, 238, 25, 229, 251, 223, 116, 144, 24, 211, 210, 171,
                  250, 4, 188, 189, 19, 101, 219, 49, 46, 184, 109, 199, 22, 147, 137, 184>>,
       hash256 |-> <<99, 225, 107, 231, 196, 103, 1, 225, 39, 94, 126, 92, 121, 115, 38, 133,
                   184, 36, 82, 3, 67, 197, 26, 134, 167, 187, 72, 160, 68, 135, 136, 35>>],
      [input |-> <<128, 0>>,
       sha256 |-> <<133, 9, 184, 18, 48, 1, 157, 42, 217, 112, 217, 112, 247, 145, 223, 189,
                  200, 202, 245, 79, 92, 89, 79, 205, 50, 124, 239, 159, 238, 210, 6, 193>>,
       hash256 |-> <<166, 178, 7, 67, 141, 14, 22, 44, 139, 191, 201, 131, 124, 10, 116, 71,
                   125, 7, 74, 107, 183, 208, 222, 197, 29, 42, 202, 188, 151, 244, 23, 92>>],
      [input |-> <<128, 128>>,
       sha256 |-> <<175, 71, 44, 242, 151, 125, 191, 204, 196, 88, 81, 225, 37, 37, 98, 127,
                  201, 236, 192, 63, 39, 79, 16, 138, 134, 91, 24, 166, 114, 243, 139, 166>>,
       hash256 |-> <<254, 13, 86, 71, 200, 102, 65, 126, 68, 91, 55, 171, 229, 231, 236, 61,
                   92, 201, 14, 29, 197, 126, 86, 42, 103, 206, 110, 78, 105, 242, 211, 186>>],
      [input |-> <<128, 255>>,
       sha256 |-> <<216, 125, 1, 100, 47, 71, 160, 209, 144, 27, 29, 253, 35, 49, 201, 222,
                  241, 188, 252, 105, 216, 131, 92, 108, 217, 17, 254, 65, 101, 184, 4, 228>>,
       hash256 |-> <<85, 74, 150, 114, 74, 148, 169, 29, 167, 193, 101, 225, 245, 81, 150, 218,
                   110, 135, 182, 168, 203, 74, 141, 129, 95, 126, 177, 230, 248, 94, 119, 240>>],
      [input |-> <<255, 0>>,
       sha256 |-> <<234, 93, 191, 149, 150, 209, 135, 233, 80, 15, 35, 233, 166, 128, 16, 148,
                  117, 52, 28, 244, 232, 31, 126, 4, 63, 125, 151, 21, 44, 16, 119, 47>>,
       hash256 |-> <<56, 145, 132, 192, 39, 20, 173, 155, 185, 30, 235, 12, 185, 16, 46, 98,
                   255, 216, 169, 71, 93, 196, 52, 194, 57, 239, 94, 90, 113, 222, 249, 66>>],
      [input |-> <<255, 128>>,
       sha256 |-> <<133, 198, 22, 33, 235, 208, 68, 3, 246, 109, 150, 254, 48, 12, 241, 11,
                  56, 68, 222, 115, 88, 24, 79, 18, 118, 203, 8, 121, 15, 209, 53, 241>>,
       hash256 |-> <<29, 2, 219, 115, 58, 19, 167, 162, 65, 80, 34, 151, 95, 25, 191, 165,
                   220, 70, 54, 250, 141, 167, 28, 220, 158, 207, 106, 146, 31, 14, 6, 52>>],
      [input |-> <<255, 255>>,
       sha256 |-> <<202, 47, 208, 15, 160, 1, 25, 7, 68, 193, 92, 49, 118, 67, 171, 9,
                  46, 112, 72, 206, 8, 106, 36, 62, 43, 233, 67, 124, 137, 141, 225, 187>>,
       hash256 |-> <<251, 141, 101, 164, 30, 47, 140, 151, 161, 51, 247, 121, 245, 223, 9, 182,
                   197, 212, 206, 212, 22, 243, 120, 239, 153, 238, 163, 216, 109, 43, 45, 253>>]>>

\* an input comes to hand
ChooseInput ==
    /\ pc = "start"
    /\ \E i \in 1..Len(ShaVectors) : input' = ShaVectors[i].input
    /\ pc' = "input"
    /\ UNCHANGED <<result, sigstate, calc, keygen, block, reader, txdb, scripting>>

\* sha256(input)
Sha256 ==
    /\ pc = "input"
    /\ ret' = ReturnedBytes(sha256(input))
    /\ pc' = "sha256"
    /\ UNCHANGED <<result, sigstate, operands, chain>>

\* hash256(input)
Hash256 ==
    /\ pc = "sha256"
    /\ ret' = ReturnedBytes(double_sha256(input))
    /\ pc' = "hash256"
    /\ UNCHANGED <<result, sigstate, operands, chain>>

NextSha ==
    \/ ChooseInput
    \/ Sha256
    \/ Hash256

SpecSha == Init /\ [][NextSha]_vars

-----------------------------------------------------------------------------
(* transaction.rs: Script::evaluate *)

\* OP_DUP, OP_HASH160, OP_EQUALVERIFY, OP_CHECKSIG
OP_DUP == 118
OP_HASH160 == 169
OP_EQUALVERIFY == 136
OP_CHECKSIG == 172

\* the sighash type that evaluate accepts
SIGHASH_ALL == 1

\* the last part of Script::evaluate: Signature::decode, then
\* PublicKey::from_bytes, then verify_ecdsa; a panic of any of them ends
\* the call
Script_evaluate_verify(der_bytes, pubkey, tx_enc) ==
    only({IF sg.status # "ok" THEN Panicked
          ELSE only({IF pk.status # "ok" THEN Panicked
                     ELSE only({IF outcome = "true" THEN Returned(TRUE)
                                ELSE IF outcome = "false" THEN Returned(FALSE)
                                ELSE Panicked :
                                  outcome \in {verify_ecdsa(Affine(pk.x, pk.y), tx_enc,
                                                            Signature(sg.r, sg.s))}}) :
                       pk \in {PublicKey_decode(pubkey, BITCOIN.gen.curve)}}) :
            sg \in {decode(der_bytes)}})

\* sighash_type != 1 is refused
is_sighash_all(sighash_type) == sighash_type = SIGHASH_ALL

\* Script::evaluate: Returned(TRUE), Returned(FALSE), or Panicked where an
\* index is out of range, a length underflows or a callee panics
Script_evaluate(cmds, tx_enc) ==
    IF Len(cmds) # 7 THEN Returned(FALSE)
    ELSE
      LET signature == cmds[1]
          pubkey == cmds[2]
          pubkey_hash == cmds[5]
      IN  IF cmds[3] = <<>> \/ cmds[4] = <<>> \/ cmds[6] = <<>> \/ cmds[7] = <<>>
          THEN Panicked
          ELSE IF \/ cmds[3][1] # OP_DUP
                  \/ cmds[4][1] # OP_HASH160
                  \/ cmds[6][1] # OP_EQUALVERIFY
                  \/ cmds[7][1] # OP_CHECKSIG
          THEN Returned(FALSE)
          ELSE IF pubkey_hash # ripemd160(Sha256_digest(pubkey)) THEN Returned(FALSE)
          ELSE IF signature = <<>> THEN Panicked
          ELSE IF ~is_sighash_all(signature[Len(signature)]) THEN Returned(FALSE)
          ELSE Script_evaluate_verify(SubSeq(signature, 1, Len(signature) - 1),
                                      pubkey, tx_enc)

\* the secret keys, the signed messages and the nonces of the scripts
ScriptKeys == {1, 5}
ScriptMessages == {<<0>>, <<1>>}
MaxScriptNonce == 6

\* the signature elements: a signature of sign_ecdsa with the sighash byte
\* 1 or 2, one with r = 0, bytes that are not DER, and the empty element
SignatureElements ==
    UNION {{encode(sg) \o <<SIGHASH_ALL>>, encode(sg) \o <<2>>,
            encode(Signature(0, sg.s)) \o <<SIGHASH_ALL>>,
            <<49>> \o Tail(encode(sg)) \o <<SIGHASH_ALL>>} :
              sg \in {sign_ecdsa(sk, m, k) :
                        sk \in ScriptKeys, m \in ScriptMessages, k \in 1..MaxScriptNonce}}
      \cup {<<>>, <<SIGHASH_ALL>>}

\* the public key elements: both encodings of the public keys, bytes with
\* an unknown prefix, and the empty element
PubkeyElements ==
    UNION {{PublicKey_encode(from_sk(sk), TRUE), PublicKey_encode(from_sk(sk), FALSE),
            <<5>> \o Tail(PublicKey_encode(from_sk(sk), TRUE))} : sk \in ScriptKeys}
      \cup {<<>>}

\* the four opcode elements, right, with the first one wrong, with the first
\* one empty, with the last one empty
OpcodeElements ==
    {<<<<OP_DUP>>, <<OP_HASH160>>, <<OP_EQUALVERIFY>>, <<OP_CHECKSIG>>>>,
     <<<<OP_HASH160>>, <<OP_HASH160>>, <<OP_EQUALVERIFY>>, <<OP_CHECKSIG>>>>,
     <<<<>>, <<OP_HASH160>>, <<OP_EQUALVERIFY>>, <<OP_CHECKSIG>>>>,
     <<<<OP_DUP>>, <<OP_HASH160>>, <<OP_EQUALVERIFY>>, <<>>>>}

\* script_sig + script_pubkey of a P2PKH input
P2pkh(signature, pubkey, pubkey_hash, ops) ==
    <<signature, pubkey, ops[1], ops[2], pubkey_hash, ops[3], ops[4]>>

\* Tx::validate: the combined script of an input and the encoding it signs
\* are at hand; the script has seven elements, or six
ChooseScript ==
    /\ pc = "start"
    /\ \E signature \in SignatureElements, pubkey \in PubkeyElements,
          ops \in OpcodeElements, right_hash \in BOOLEAN, complete \in BOOLEAN :
         script' = only({IF complete THEN cmds ELSE SubSeq(cmds, 1, 6) :
                           cmds \in {P2pkh(signature, pubkey,
                                           IF right_hash
                                           THEN ripemd160(Sha256_digest(pubkey))
                                           ELSE <<>>,
                                           ops)}})
    /\ \E m \in ScriptMessages : mod_tx_enc' = m
    /\ pc' = "script"
    /\ UNCHANGED <<result, sigstate, calc, keygen, block, reader, txdb, input>>

\* combined.evaluate(&mod_tx_enc)
Evaluate ==
    /\ pc = "script"
    /\ ret' = Script_evaluate(script, mod_tx_enc)
    /\ pc' = "evaluated"
    /\ UNCHANGED <<result, sigstate, operands, chain>>

NextScript ==
    \/ ChooseScript
    \/ Evaluate

SpecScript == Init /\ [][NextScript]_vars

-----------------------------------------------------------------------------
(* Claims *)

\* a signature is at hand that sign_ecdsa (or sign_schnorr) returned
Signed == pc \in {"signed", "verified"} /\ signer # 0

\* r and s are both in [1, n)
InRange(sg) ==
    /\ sg.r >= 1 /\ sg.r < BITCOIN.gen.n
    /\ sg.s >= 1 /\ sg.s < BITCOIN.gen.n

\* C1: a signature that identity 1 made with sign_ecdsa verifies under the
\* public key of identity 1: verify_ecdsa returns true, whatever the secret
\* key, the message and the nonce.
\* Does not hold: sign_ecdsa returns r >= n or s = 0 for some nonces, and
\* verify_ecdsa asserts against them.
C1_OwnSignatureVerifies ==
    (pc = "verified" /\ signer = 1) => result = "true"

\* the one congruence under which ECDSA accepts a signature of sk2 for the
\* key sk1 # sk2: z + r.sk1 = -(z + r.sk2) (mod n)
Coincidence ==
    (2 * digest(message) + sig.r * (sk1 + sk2)) % BITCOIN.gen.n = 0

\* C2: a signature that identity 2 made with sign_ecdsa is refused under the
\* public key of identity 1: verify_ecdsa returns false, whatever the nonce.
\* Stated for the keys and messages for which any ECDSA can refuse at all:
\* two distinct secret keys, and no coincidence.
\* Does not hold: the call panics where r >= n or s = 0.
C2_OtherSignatureRefused ==
    (pc = "verified" /\ signer = 2 /\ sk1 # sk2 /\ ~Coincidence)
        => result = "false"

\* C3: every signature sign_ecdsa returns has 1 <= r < n and 1 <= s < n.
\* Does not hold: r is x(k.G) unreduced, and no nonce is redrawn.
C3_SignatureInRange ==
    Signed => InRange(sig)

\* C4: every signature sign_ecdsa returns is in low-s form: s <= n/2.
C4_LowS ==
    Signed => sig.s <= BITCOIN.gen.n \div 2

\* C4, witness: sign_ecdsa returned a signature whose s was above n/2 as
\* first computed, and was replaced by n - s.
C4_Witness ==
    /\ pc = "signed"
    /\ signer = 1
    /\ raw_s(sk1, message, nonce) > BITCOIN.gen.n \div 2
    /\ sig.s = BITCOIN.gen.n - raw_s(sk1, message, nonce)

\* C5: verify_ecdsa, given a valid public key and a signature with r and s
\* in [1, n), returns a boolean, and false when P is the identity; given r
\* or s outside [1, n) it ends in its error outcome.
\* Does not hold: on the identity the call panics in P.x.unwrap().
C5_VerifyTotal ==
    pc = "verified" =>
        IF InRange(sig)
        THEN /\ result \in {"true", "false"}
             /\ verify_point(pk1, message, sig).inf => result = "false"
        ELSE result = "assert_failed"

\* C6: for r and s in [1, n) and P not the identity, verify_ecdsa returns
\* true exactly when x(P) mod n = r.
\* Does not hold: x(P) is compared unreduced.
C6_ComparesReducedX ==
    (pc = "verified" /\ InRange(sig) /\ ~verify_point(pk1, message, sig).inf)
        => (result = "true"
              <=> verify_point(pk1, message, sig).x % BITCOIN.gen.n = sig.r)

C8_OwnSchnorrVerifies ==
    (pc = "verified" /\ signer = 1) => result = "true"

\* C9: decode(encode(sig)) has the r and the s of sig.
C9_DerRoundTrip ==
    pc = "decoded" => decoded = Decoded(sig.r, sig.s)

\* C9, witness: a signature was encoded and decoded whose r got the 0x00 in
\* front and whose s did not.
C9_Witness ==
    /\ pc = "decoded"
    /\ Len(dern(sig.r)) = Len(to_bytes_be(sig.r)) + 1
    /\ Len(dern(sig.s)) = Len(to_bytes_be(sig.s))
    /\ decoded.status = "ok"

\* C10: bytes that decode accepts are the bytes encode gives back for the
\* decoded signature.
\* Does not hold: decode accepts zero-length integers and redundant
\* leading zero bytes.
C10_DecodeInvertsEncode ==
    pc = "reencoded" => der2 = der

\* C11: for a non-identity point Q of the curve and either encoding,
\* PublicKey::decode(PublicKey(Q).encode(compressed, false)) returns a
\* point with the x and the y of Q.
\* Does not hold: decoding the compressed form panics, in x.pow(3) or in
\* y2.pow(exponent), neither of which is reduced mod p.
C11_SecRoundTrip ==
    pc = "sec_decoded" =>
        (ret.status = "ok" /\ ret.x = point.x /\ ret.y = point.y)


\* C12: PublicKey::decode returns a point only for prefix 4 with 65 bytes
\* or prefix 2 or 3 with 33 bytes, an X below p, and a point (X, Y) of the
\* curve; on every other input it fails and returns no point.
\* Does not hold: the uncompressed form is returned as read, whatever X and
\* Y are.
C12_DecodeChecksInput ==
    (pc = "sec_parsed" /\ ret.status = "ok") =>
        /\ \/ pkb[1] = 4 /\ Len(pkb) = 1 + 2 * WordLen
           \/ pkb[1] \in {2, 3} /\ Len(pkb) = 1 + WordLen
        /\ ret.x < BITCOIN.gen.curve.p
        /\ OnCurve(ret.x, ret.y)


\* C13: for every public key, net and encoding, address_to_pkb_hash of
\* pk.address(net, compressed) returns the HASH160 that
\* pk.encode(compressed, true) returns.
\* Does not hold: b58decode hands U256::to_big_endian an empty buffer and
\* panics.
C13_AddressRoundTrip ==
    pc = "address_decoded" =>
        ret = ReturnedBytes(PublicKey_encode_hash160(point, compressed))


\* the power a^e, for the statement of C14
RECURSIVE Power(_, _, _)
Power(a, e, p) == IF e = 0 THEN 1 % p ELSE (Power(a, e - 1, p) * (a % p)) % p

\* C14: add_mod, sub_mod, mul_mod and exp_mod return (a + b) mod p,
\* (a - b) mod p, (a.b) mod p and a^e mod p, the representative in [0, p),
\* for all words a, b, e and every modulus p >= 2.
C14_ModularArithmetic ==
    /\ pc = "add_mod" => ret.v = (field_a + field_b) % field_p
    /\ pc = "sub_mod" => ret.v = (field_a - field_b) % field_p
    /\ pc = "mul_mod" => ret.v = (field_a * field_b) % field_p
    /\ pc = "exp_mod" => ret.v = Power(field_a, field_b, field_p)

\* C14, witness: an addition whose reduced operands carry out of the word
C14_Witness ==
    /\ pc = "add_mod"
    /\ (field_a % field_p) + (field_b % field_p) >= U256Modulus
    /\ ret.v = (field_a + field_b) % field_p


\* C15: for a prime p and a in [1, p), curves::inv(a, p) returns v in
\* [1, p) with (a.v) mod p = 1, and RU256::div_mod(c, a, p) returns d in
\* [0, p) with (d.a) mod p = c mod p.
\* Does not hold: inv computes the Bezout coefficients in i128 and casts p
\* with as_u128, which fails for the primes of more than half a word.
C15_InverseCorrect ==
    (field_p \in Primes /\ field_b >= 1 /\ field_b < field_p) =>
        /\ pc = "inv" =>
             /\ ret.status = "ok"
             /\ ret.v >= 1 /\ ret.v < field_p
             /\ (field_b * ret.v) % field_p = 1
        /\ pc = "div_mod" =>
             /\ ret.status = "ok"
             /\ ret.v >= 0 /\ ret.v < field_p
             /\ (ret.v * field_b) % field_p = field_a % field_p

\* C16: the inverse of zero is an error: curves::inv(0, p) and
\* RU256::div_mod(a, b, p) with b = 0 (mod p) return no field element.
\* Does not hold: both return 0.
C16_InverseOfZeroFails ==
    (pc \in {"inv", "div_mod"} /\ field_b % field_p = 0) => ret.status # "ok"


\* C17: for a scalar k of the width of a U256 and a point P of order n,
\* scalar multiplication (SECP256K1::scalar_multiplication and point * k of
\* curves.rs) returns (k mod n).P and does not panic.
\* Does not hold: scalar_multiplication returns a point off the curve for
\* k = n and panics for k = n + 2; point * k panics on U256 overflow.
C17_ScalarMultiplication ==
    LET kP == scalar_mul(scalar % BITCOIN.gen.n, point)
    IN  /\ pc = "scalar_multiplication" => ret = ReturnedPoint(kP.x, kP.y)
        /\ pc = "point_mul" => ret = ReturnedU(kP)


\* C18: point addition is the group law on the multiples of G: for k1
\* and k2 in [0, n), add(k1.G, k2.G) = ((k1 + k2) mod n).G.
\* Does not hold: add_points panics on equal operands and returns a point
\* off the curve for inverse operands; + of curves.rs panics on U256
\* overflow.
C18_GroupLaw ==
    LET sum == scalar_mul((scalar + scalar2) % BITCOIN.gen.n, BITCOIN.gen.G)
    IN  /\ pc = "add_points" => ret = ReturnedPoint(sum.x, sum.y)
        /\ pc = "point_add" => ret = ReturnedU(sum)

\* C19: for non-identity points P and Q, addition decides P = Q (the result
\* is the doubling of P) and P = -Q (the result is the identity) before the
\* slope is computed: it neither panics on equal operands nor divides by
\* x(P) - x(Q) = 0.
\* Does not hold: add_points asserts that its operands differ, and for
\* P = -Q it divides by zero, which div_mod answers with 0.
C19_AddDecidesSpecialCases ==
    (pc \in {"add_points", "point_add"} /\ ~point.inf /\ ~point2.inf) =>
        /\ point = point2 =>
             /\ ret.status = "ok"
             /\ ret.x = point_double(point).x
             /\ ret.y = point_double(point).y
        /\ point = point_neg(point2) =>
             ret \in {ReturnedPoint(zero_point.x, zero_point.y), ReturnedU(INF)}


\* the points the ladder of SECP256K1::public_key(sk) passes through
PublicKeyLadder == scalar_multiplication_ladder(scalar, SECP256K1.g, 0)

\* C20: for a secret key in [1, n), the public key that PublicKey::from_sk
\* and SECP256K1::public_key derive is a point other than the identity, with
\* coordinates in [0, p), on the curve; every point the ladder passes
\* through is the identity or on the curve.
\* Does not hold: PublicKey::from_sk of keys.rs panics on U256 overflow and
\* derives no key.
C20_PublicKeyOnCurve ==
    /\ pc \in {"public_key", "from_sk"} =>
         /\ ret.status = "ok"
         /\ ret.x >= 0 /\ ret.x < BITCOIN.gen.curve.p
         /\ ret.y >= 0 /\ ret.y < BITCOIN.gen.curve.p
         /\ OnCurve(ret.x, ret.y)
    /\ pc = "from_sk" => ~ret.inf
    /\ pc = "public_key" =>
         \A i \in 1..Len(PublicKeyLadder) :
            \/ is_zero_point(PublicKeyLadder[i])
            \/ /\ PublicKeyLadder[i].x # Panic
               /\ OnCurve(PublicKeyLadder[i].x, PublicKeyLadder[i].y)


\* C21: gen_secret_key(n) returns only a key k with 1 <= k < n; a draw that
\* is 0 or at least n is not returned, the loop draws again; and with a
\* random source that does not withhold the keys of [1, n) for ever, the
\* call returns.
C21_GenSecretKey ==
    /\ [](pc = "key_returned" =>
            /\ ret = Returned(candidate)
            /\ candidate >= 1 /\ candidate < order)
    /\ [][(pc = "gen_secret_key" /\ (candidate' = 0 \/ candidate' >= order))
            => (pc' = "gen_secret_key" /\ ret' = ret)]_vars
    /\ ((pc = "gen_secret_key" /\ order > 1) ~> pc = "key_returned")

\* C21, witness: the loop goes on after it drew a key that is n or more
C21_Witness ==
    /\ pc = "gen_secret_key"
    /\ order > 1
    /\ candidate >= order


\* the target that a bits field stands for: coeff * 256^(exp - 3)
SpecTarget == Coefficient(block_bits) * ByteModulus^(block_bits[4] - 3)

\* C22: for a bits field with exp >= 3 whose target fits the word,
\* bits_to_target returns coeff * 256^(exp - 3), and Block::validate returns
\* true exactly when the ID, read big-endian, is below that target; an ID
\* equal to the target is refused.
\* Does not hold: bits_to_target copies the coefficient to the first bytes
\* of the 32-byte array, its most significant end, so that the number it
\* multiplies is coeff * 256^29 and the product leaves the word.
C22_ValidateBelowTarget ==
    (pc \in {"target", "validate"} /\ block_bits[4] >= 3 /\ SpecTarget < UintModulus) =>
        /\ pc = "target" => ret = Returned(SpecTarget)
        /\ pc = "validate" => ret = Returned(Uint256_from_be_bytes(block_id) < SpecTarget)


\* C27: for a bits field that encodes a target (exp >= 3, the top byte of
\* the coefficient not 0, the target within the word),
\* target_to_bits(bits_to_target(bits)) = bits.
\* Does not hold: bits_to_target returns another number than the target
\* (C22), and target_to_bits strips the zero bytes at the low end of the
\* number and counts what is left as the exponent.
C27_BitsRoundTrip ==
    (/\ pc = "target_to_bits"
     /\ block_bits[4] >= 3
     /\ block_bits[3] # 0
     /\ SpecTarget < UintModulus) =>
        ret = ReturnedBytes(block_bits)


\* C28: read_varint of the bytes of encode_varint(v) returns v and leaves
\* the reader behind those bytes, at the next field.
\* Does not hold: encode_varint writes the eight little-endian bytes of v
\* without a prefix, and read_varint takes the first of them for the
\* prefix.
C28_VarintRoundTrip ==
    pc = "read_varint" =>
        /\ ret = Returned(varint)
        /\ position = Len(encode_varint(varint))


\* C29: every file of txdb holds bytes that decode to a transaction whose
\* id() is the name of the file.
\* Does not hold: fetch writes the downloaded bytes before it decodes them
\* and compares the id.
C29_CacheHoldsOwnTx ==
    \A tx_id \in DOMAIN txdb : fetch_decode(txdb[tx_id], tx_id) # Panicked


\* C24: sha256 returns the digest of a reference SHA-256 for the empty
\* input, for inputs of one block and of several blocks, and hash256(x) is
\* sha256(sha256(x)); the padding is 0x80, zeros up to 56 mod 64 bytes and
\* the length in bits as 8 big-endian bytes.
C24_Sha256 ==
    /\ pc = "sha256" =>
         \E i \in 1..Len(ShaVectors) :
             input = ShaVectors[i].input /\ ret = ReturnedBytes(ShaVectors[i].sha256)
    /\ pc = "hash256" =>
         \E i \in 1..Len(ShaVectors) :
             input = ShaVectors[i].input /\ ret = ReturnedBytes(ShaVectors[i].hash256)
    /\ pc = "input" =>
         /\ Len(pad(input)) % 64 = 0
         /\ Len(pad(input)) < Len(input) + 1 + 8 + 64
         /\ \A i \in 1..(Len(pad(input)) - 8) :
                pad(input)[i] = IF i <= Len(input) THEN input[i]
                                ELSE IF i = Len(input) + 1 THEN 128
                                ELSE 0
         /\ from_bytes_be(SubSeq(pad(input), Len(pad(input)) - 7, Len(pad(input))))
                = 8 * Len(input)

\* C24, witness: sha256 has returned the digest of an input of three blocks
C24_Witness ==
    /\ pc = "sha256"
    /\ Len(pad(input)) = 3 * 64
    /\ ret = ReturnedBytes(sha256(input))


\* C25: for operands below p no intermediate sum or product of the point
\* addition of curves.rs, of inv or of PublicKey::decode leaves the 256-bit
\* word: the addition of two points of the curve ends without an overflow.
\* Does not hold: the intermediates are U256 values that are reduced only
\* after the operation, and U256 panics on overflow.
C25_NoIntermediateOverflow ==
    pc = "point_add" => ret # Panicked

\* C26: doubling the identity gives the identity, and doubling a point with
\* y = 0 gives the identity, in double_point and in point + point.
\* Does not hold: + of curves.rs has no case for y = 0.
C26_DoublingToIdentity ==
    /\ (pc = "double_point" /\ (point.inf \/ point.y = 0))
           => ret = ReturnedRU(zero_point)
    /\ (pc = "point_add_self" /\ (point.inf \/ point.y = 0))
           => ret = ReturnedU(INF)


\* the signature (r, s) is a valid ECDSA signature of msg for the key Q
EcdsaAccepts(Q, msg, sg) ==
    /\ sg.r >= 1 /\ sg.r < BITCOIN.gen.n
    /\ sg.s >= 1 /\ sg.s < BITCOIN.gen.n
    /\ ~verify_point(Q, msg, sg).inf
    /\ verify_point(Q, msg, sg).x % BITCOIN.gen.n = sg.r

\* the conditions of a standard script: seven elements, the four opcodes,
\* the HASH160 of the public key, the sighash byte 1 at the end of the
\* signature element, and a signature that verifies for the public key
StandardScriptAccepted(cmds, msg) ==
    /\ Len(cmds) = 7
    /\ cmds[3] # <<>> /\ cmds[3][1] = OP_DUP
    /\ cmds[4] # <<>> /\ cmds[4][1] = OP_HASH160
    /\ cmds[6] # <<>> /\ cmds[6][1] = OP_EQUALVERIFY
    /\ cmds[7] # <<>> /\ cmds[7][1] = OP_CHECKSIG
    /\ cmds[5] = ripemd160(Sha256_digest(cmds[2]))
    /\ cmds[1] # <<>> /\ cmds[1][Len(cmds[1])] = SIGHASH_ALL
    /\ \E Q \in CurvePoints, compr \in BOOLEAN :
         /\ PublicKey_encode(Q, compr) = cmds[2]
         /\ decode(SubSeq(cmds[1], 1, Len(cmds[1]) - 1)).status = "ok"
         /\ EcdsaAccepts(Q, msg, decode(SubSeq(cmds[1], 1, Len(cmds[1]) - 1)))

\* C23: Script::evaluate returns true exactly for the standard scripts:
\* seven elements, the opcodes 0x76, 0xA9, 0x88, 0xAC, element 4 the HASH160
\* of element 1, the sighash byte 1, and a signature that verifies.
\* Does not hold: for a script with a compressed public key the call panics
\* in PublicKey::decode.
C23_StandardScript ==
    pc = "evaluated" =>
        (ret = Returned(TRUE) <=> StandardScriptAccepted(script, mod_tx_enc))

\* C30: Script::evaluate returns a boolean for every script, and false for
\* a script with an empty element, an empty signature, bytes that are not
\* DER, r or s out of range, or bytes that are not SEC.
\* Does not hold: each of these panics.
C30_EvaluateTotal ==
    pc = "evaluated" =>
        /\ ret \in {Returned(TRUE), Returned(FALSE)}
        /\ ~StandardScriptAccepted(script, mod_tx_enc) => ret = Returned(FALSE)


=============================================================================
